---- MODULE Spec2Model ----
(***************************************************************************)
(* A model of the Converge plugin: the semantic index (chunking, rebuild,  *)
(* persistence, similarity search, discovery) and the chat orchestrator    *)
(* (send guard, optimistic append, streaming accumulation, rollback).      *)
(*                                                                         *)
(* A text is the non-empty sequence of its lines (what text.split('\n')    *)
(* returns; the empty text is <<"">>), and a chunk's text the sequence of   *)
(* the lines that join('\n') glues together.  Each await of the code is a  *)
(* position (pc) of the suspended call; an action runs the synchronous     *)
(* code between two awaits.                                                *)
(***************************************************************************)
EXTENDS Integers, Sequences, FiniteSets, TLC

VARIABLES
    vault,        \* the markdown files that exist in the vault
    store,        \* the persisted index file (index.json)
    booted,       \* onload has run loadIndex
    vaultIndex,   \* ConvergePlugin.vaultIndex
    isIndexing,   \* ConvergePlugin.isIndexing
    now,          \* the clock read by Date.now()
    rb,           \* the invocations of rebuildIndex
    notice,       \* the last Notice rebuildIndex showed
    whole,        \* history: the latest index value loaded or assembled whole
    sr,           \* the invocation of performSemanticSearch / semanticSearch
    semanticResults,   \* ChatView.semanticResults
    disc,         \* the invocation of findSimilarNotes
    similarNotes, \* ChatView.similarNotes
    discoverThreshold, \* settings.discoverThreshold
    messages,     \* ChatView.messages
    isLoading,    \* ChatView.isLoading
    inputValue,   \* ChatView.inputEl.value
    apiKey,       \* settings.apiKey is set
    useSemanticSearch, \* settings.useSemanticSearch
    contextNotes, \* ChatView.contextNotes
    snd,          \* the invocations of sendMessage
    submit,       \* history: the last call of sendMessage and what the guard did
    last,         \* history: how the last accepted send ended
    userName,     \* settings.userName
    maxTokens,    \* settings.maxTokens
    tokenDisplay, \* the token counter of the chat view and its warning level
    upd,          \* the invocations of updateTokenDisplay
    call,         \* the last application of chunkText, searchIndex or cosineSimilarity
    discoverContainer, \* ChatView.discoverContainer: what the discover list shows
    hubNote       \* the related notes of the last hub note createHubNote built

plugVars == <<vault, store, booted, vaultIndex, isIndexing, now, rb, notice, whole>>

readVars == <<sr, semanticResults, disc, similarNotes, discoverThreshold>>

\* The user name and the token budget of the settings, the token counter, and
\* the function applications that the specifications of the functions follow
viewVars == <<userName, maxTokens, tokenDisplay, upd, call, discoverContainer, hubNote>>

chatVars == <<messages, isLoading, inputValue, apiKey, useSemanticSearch, contextNotes,
              snd, submit, last, viewVars>>

\* The chat view and the settings without the discover list
paneVars == <<messages, isLoading, inputValue, apiKey, useSemanticSearch, contextNotes,
              snd, submit, last, userName, maxTokens, tokenDisplay, upd, call, hubNote>>

vars == <<plugVars, readVars, chatVars>>

----------------------------------------------------------------------------
(* Bounds and the configuration the model runs with *)

\* The clock starts at 1 and every swap advances it: MaxNow - 1 rebuilds swap
MaxNow == 3

\* settings.chunkSize, settings.chunkOverlap, settings.topK
chunkSize == 2

chunkOverlap == 1

topK == 2

FileOrder == <<"a.md", "b.md">>

Files == {FileOrder[i] : i \in 1..Len(FileOrder)}

Content(f) == IF f = "a.md" THEN <<"abcd", "efgh", "ijkl">> ELSE <<"mnop">>

\* What the embedding service answers for a chunk of text, and for a query
ServiceEmbeddings(text) ==
    IF text[1] = "abcd" THEN {<<3, 4>>}
    ELSE IF text[1] = "efgh" THEN {<<5, 0>>}
    ELSE {<<4, 3>>}

QueryEmbeddings == {<<3, 4>>, <<0, 5>>}

\* settings.systemPrompt and the names the settings tab is given
SystemPrompt == "Be kind."

UserNames == {"", "Ann"}

\* file.basename
Basename(file) == IF file = "a.md" THEN "a" ELSE IF file = "b.md" THEN "b" ELSE "old"

\* settings.maxTokens at startup and the values the settings tab is given
DefaultMaxTokens == 20

MaxTokensValues == {2, DefaultMaxTokens}

\* The calls of updateTokenDisplay that can be waiting for a read at a time
MaxUpdates == 1

\* No function has been applied
NoCall == [fn |-> "none"]

\* The discover list showing a message, or nothing yet ("blank")
Shows(kind) == [kind |-> kind, items |-> <<>>]

\* The token counter before its first update: the level classes of the counter
\* and the state of the warning banner.  History: done is the parity of the
\* updates that have completed.
NoDisplay == [classes |-> {}, banner |-> "hidden", done |-> 0]

\* DEFAULT_SETTINGS.discoverThreshold, 0.7
DefaultThreshold == [nan |-> FALSE, num |-> 7, den |-> 10]

Invocations == {1, 2}

\* A send is accepted while the history has room for its two messages
MaxMessages == 4

\* What the user may leave in the input box; a text is the sequence of its characters
Inputs == {<<" ">>, <<" ", "h", "i", "\n">>}

\* The six characters every event line of the stream starts with
DataPrefix == <<"d", "a", "t", "a", ":", " ">>

DoneSentinel == <<"[", "D", "O", "N", "E", "]">>

\* An event as the service writes it: the prefix, the payload, a blank line
Event(payload) == DataPrefix \o payload \o <<"\n", "\n">>

\* The bodies the completion service may stream.  A JSON document is written
\* { c1 c2 ... }, standing for the object whose choices[0].delta.content is
\* the text c1 c2 ...; a payload that is not of this form is no valid JSON.
Streams ==
    { Event(<<"{", "h", "}">>) \o Event(<<"{", "i", "}">>) \o Event(DoneSentinel),
      Event(<<"{", "h">>) \o Event(<<"{", "}">>) \o Event(<<"{", "i", "}">>) }

\* The body streamed while the user acts on the chat view
ShortStreams == { Event(<<"{", "h", "}">>) }

\* valid: the file can be read and its content parses to an object with a chunk list
NoStore == [exists |-> FALSE, valid |-> TRUE, chunks |-> <<>>, lastUpdated |-> 0]

\* An index file left by an earlier session; old.md has been deleted since
StoredSample ==
    [exists |-> TRUE, valid |-> TRUE,
     chunks |-> << [filePath |-> "a.md", text |-> <<"abcd">>, embedding |-> <<3, 4>>,
                    startLine |-> 0, endLine |-> 0],
                   [filePath |-> "old.md", text |-> <<"zz">>, embedding |-> <<4, 3>>,
                    startLine |-> 0, endLine |-> 0] >>,
     lastUpdated |-> 1]

\* An index file that adapter.read or JSON.parse rejects
CorruptStore == [StoredSample EXCEPT !.valid = FALSE]

\* An index file of both notes, from a session in which a.md had four chunks:
\* against the query <<3, 4>> they score 0.6, 0.6, 0.6 and 0.8, 0.65 in the mean
StoredDiscover ==
    [exists |-> TRUE, valid |-> TRUE,
     chunks |-> [i \in 1..5 |->
                    [filePath |-> IF i = 5 THEN "b.md" ELSE "a.md",
                     text |-> <<"abcd">>,
                     embedding |-> IF i \in 1..3 THEN <<5, 0>>
                                   ELSE IF i = 4 THEN <<0, 5>> ELSE <<3, 4>>,
                     startLine |-> IF i = 5 THEN 0 ELSE i - 1,
                     endLine |-> IF i = 5 THEN 0 ELSE i - 1]],
     lastUpdated |-> 1]

----------------------------------------------------------------------------
(* Pure functions *)

CeilDiv(n, d) == (n + d - 1) \div d

estimateTokens(line) == CeilDiv(Len(line), 4)

RECURSIVE OverlapLoop(_, _, _, _, _)
OverlapLoop(currentChunk, overlap, j, overlapLines, overlapSize) ==
    IF j >= 1 /\ overlapSize < overlap
    THEN OverlapLoop(currentChunk, overlap, j - 1,
                     <<currentChunk[j]>> \o overlapLines,
                     overlapSize + estimateTokens(currentChunk[j]))
    ELSE [lines |-> overlapLines, size |-> overlapSize]

RECURSIVE ChunkLoopKeepsOpen(_, _, _, _, _, _, _, _)
ChunkLoopKeepsOpen(lines, size, overlap, i, chunks, currentChunk, currentSize, startLine) ==
    IF i >= Len(lines)
    THEN IF Len(currentChunk) > 0
         THEN Append(chunks, [text |-> currentChunk, startLine |-> startLine,
                              endLine |-> Len(lines) - 1])
         ELSE chunks
    ELSE LET line == lines[i + 1]
             lineTokens == estimateTokens(line)
         IN IF currentSize + lineTokens > size /\ Len(currentChunk) > 0
               /\ lineTokens <= size
            THEN LET ov == OverlapLoop(currentChunk, overlap, Len(currentChunk), <<>>, 0)
                 IN ChunkLoopKeepsOpen(lines, size, overlap, i + 1,
                                       Append(chunks, [text |-> currentChunk,
                                                       startLine |-> startLine,
                                                       endLine |-> i - 1]),
                                       Append(ov.lines, line), ov.size + lineTokens,
                                       i - Len(ov.lines))
            ELSE ChunkLoopKeepsOpen(lines, size, overlap, i + 1, chunks,
                                    Append(currentChunk, line), currentSize + lineTokens,
                                    startLine)

RECURSIVE ChunkLoop(_, _, _, _, _, _, _, _)
ChunkLoop(lines, size, overlap, i, chunks, currentChunk, currentSize, startLine) ==
    \* i is the 0-based line index of the code; lines[i + 1] is that line
    IF i >= Len(lines)
    THEN IF Len(currentChunk) > 0
         THEN Append(chunks, [text |-> currentChunk, startLine |-> startLine,
                              endLine |-> Len(lines) - 1])
         ELSE chunks
    ELSE LET line == lines[i + 1]
             lineTokens == estimateTokens(line)
         IN IF currentSize + lineTokens > size /\ Len(currentChunk) > 0
            THEN LET ov == OverlapLoop(currentChunk, overlap, Len(currentChunk), <<>>, 0)
                 IN ChunkLoop(lines, size, overlap, i + 1,
                              Append(chunks, [text |-> currentChunk,
                                              startLine |-> startLine,
                                              endLine |-> i - 1]),
                              Append(ov.lines, line), ov.size + lineTokens,
                              i - Len(ov.lines))
            ELSE ChunkLoop(lines, size, overlap, i + 1, chunks,
                           Append(currentChunk, line), currentSize + lineTokens,
                           startLine)

chunkTextFromOne(text, size, overlap) == ChunkLoop(text, size, overlap, 0, <<>>, <<>>, 0, 1)

chunkText(text, size, overlap) == ChunkLoop(text, size, overlap, 0, <<>>, <<>>, 0, 0)

RECURSIVE DotProduct(_, _, _)
DotProduct(a, b, i) ==
    IF i > Len(a) THEN 0 ELSE a[i] * b[i] + DotProduct(a, b, i + 1)

\* Math.sqrt, exact on the perfect squares the model's vectors have as norms
Sqrt(n) == CHOOSE r \in 0..n : r * r = n

NaN == [nan |-> TRUE, num |-> 0, den |-> 1]

\* A score is the quotient num / den (den > 0), or NaN for 0 / 0
cosineSimilarity(a, b) ==
    IF Len(a) # Len(b)
    THEN [nan |-> FALSE, num |-> 0, den |-> 1]
    ELSE LET dotProduct == DotProduct(a, b, 1)
             normA == DotProduct(a, a, 1)
             normB == DotProduct(b, b, 1)
             den == Sqrt(normA) * Sqrt(normB)
         IN IF den = 0 THEN NaN
            ELSE [nan |-> FALSE, num |-> dotProduct, den |-> den]

\* x > y on scores; every comparison with NaN is false
ScoreGreater(x, y) == ~x.nan /\ ~y.nan /\ x.num * y.den > y.num * x.den

\* scored.sort((a, b) => b.score - a.score): a stable sort, descending
RECURSIVE InsertScored(_, _, _)
InsertScored(sorted, e, i) ==
    IF i > Len(sorted) THEN Append(sorted, e)
    ELSE IF ScoreGreater(e.score, sorted[i].score)
         THEN SubSeq(sorted, 1, i - 1) \o <<e>> \o SubSeq(sorted, i, Len(sorted))
         ELSE InsertScored(sorted, e, i + 1)

RECURSIVE SortScored(_, _, _)
SortScored(scored, i, acc) ==
    IF i > Len(scored) THEN acc
    ELSE SortScored(scored, i + 1, InsertScored(acc, scored[i], 1))

Min(a, b) == IF a < b THEN a ELSE b

searchIndex(index, queryEmbedding, k) ==
    LET scored == [i \in 1..Len(index.chunks) |->
                      [chunk |-> index.chunks[i],
                       score |-> cosineSimilarity(queryEmbedding, index.chunks[i].embedding)]]
        sorted == SortScored(scored, 1, <<>>)
        top == SubSeq(sorted, 1, Min(k, Len(sorted)))
    IN [i \in 1..Len(top) |-> top[i].chunk]

----------------------------------------------------------------------------
(* The plugin: startup, persistence, rebuild *)

EmptyIndex == [chunks |-> <<>>, lastUpdated |-> 0]

IdleRebuild == [pc |-> "idle", files |-> <<>>, textChunks |-> <<>>, chunks |-> <<>>,
                pending |-> NoStore, log |-> <<>>, listed |-> <<>>]

IdleSearch == [pc |-> "idle", outcome |-> "none", torn |-> FALSE, during |-> FALSE,
               seen |-> EmptyIndex]

\* A call of sendMessage past its guard.  notes, i: the array the context loop iterates and the
\* index of its next element; shared: this.contextNotes is still that array.
\* contextText: the documents the loop has read; request: the messages handed
\* to fetch, while the request is in flight.  History: search tells what became
\* of the semantic search of this send ("off" when the setting is off, "empty"
\* when the index was empty, "pending", "ok" or "error").
\* wire: the part of the body not read yet.  History: before is the history
\* when the send was accepted, user the message it appended, stream the whole
\* body, cleared whether clearChat ran since the send was accepted.
NoRequest == [system |-> <<>>, history |-> <<>>]

NewSend == [pc |-> "guard", notes |-> <<>>, i |-> 0, shared |-> FALSE,
             contextText |-> <<>>, request |-> NoRequest, search |-> "off",
             wire |-> <<>>, fullContent |-> <<>>,
             before |-> <<>>, user |-> <<>>, stream |-> <<>>, cleared |-> FALSE]

NoOutcome == [outcome |-> "none", cleared |-> FALSE, partial |-> FALSE]

IdleDiscover == [pc |-> "idle", file |-> "", outcome |-> "none", torn |-> FALSE,
                 during |-> FALSE, seen |-> EmptyIndex]

\* The state after construction, over one of the given index files
InitOver(stores) ==
    /\ vault = Files
    /\ store \in stores
    /\ booted = FALSE
    /\ vaultIndex = EmptyIndex
    /\ isIndexing = FALSE
    /\ now = 1
    /\ rb = [r \in Invocations |-> IdleRebuild]
    /\ notice = "none"
    /\ whole = EmptyIndex
    /\ sr = IdleSearch
    /\ semanticResults = <<>>
    /\ disc = IdleDiscover
    /\ similarNotes = <<>>
    /\ discoverThreshold = DefaultThreshold
    /\ messages = <<>>
    /\ isLoading = FALSE
    /\ inputValue = <<>>
    /\ apiKey = TRUE
    /\ useSemanticSearch = FALSE
    /\ contextNotes = <<>>
    /\ snd = <<>>
    /\ submit = "none"
    /\ last = NoOutcome
    /\ userName = ""
    /\ maxTokens = DefaultMaxTokens
    /\ tokenDisplay = NoDisplay
    /\ upd = <<>>
    /\ call = NoCall
    /\ discoverContainer = Shows("blank")
    /\ hubNote = <<>>

Init == InitOver({NoStore, StoredSample, CorruptStore})

\* getMarkdownFiles(): the existing files, in vault order
getMarkdownFiles == SelectSeq(FileOrder, LAMBDA f : f \in vault)

LoadChunksKeepsAll(items, i) ==
    [k \in 1..Len(items) |->
        [file |-> items[k].filePath, text |-> items[k].text,
         embedding |-> items[k].embedding,
         startLine |-> items[k].startLine, endLine |-> items[k].endLine,
         gen |-> 0]]

\* The loop of loadIndex: the stored records whose path still resolves.
\* gen is history: the generation a chunk belongs to, 0 for a loaded chunk and
\* the timestamp of its swap for a chunk a rebuild embedded.
RECURSIVE LoadChunks(_, _)
LoadChunks(items, i) ==
    IF i > Len(items) THEN <<>>
    ELSE LET item == items[i]
             rest == LoadChunks(items, i + 1)
         IN IF item.filePath \in vault
            THEN <<[file |-> item.filePath, text |-> item.text,
                    embedding |-> item.embedding,
                    startLine |-> item.startLine, endLine |-> item.endLine,
                    gen |-> 0]>> \o rest
            ELSE rest

StoreUsableIgnoresValid(st) == st.exists

\* The try block of loadIndex reaches its assignment: the file exists, read
\* resolves and JSON.parse returns; otherwise it returns early or the catch logs
StoreUsable(st) == st.exists /\ st.valid

\* onload: loadIndex, before any command or view exists
loadIndex ==
    /\ ~booted
    /\ booted' = TRUE
    /\ vaultIndex' = IF ~StoreUsable(store) THEN vaultIndex
                     ELSE [chunks |-> LoadChunks(store.chunks, 1),
                           lastUpdated |-> store.lastUpdated]
    /\ whole' = vaultIndex'
    /\ UNCHANGED <<vault, store, isIndexing, now, rb, notice, readVars, chatVars>>

SerializeUndated(index) ==
    [exists |-> TRUE, valid |-> TRUE,
     chunks |-> [i \in 1..Len(index.chunks) |->
                    [filePath |-> index.chunks[i].file,
                     text |-> index.chunks[i].text,
                     embedding |-> index.chunks[i].embedding,
                     startLine |-> index.chunks[i].startLine,
                     endLine |-> index.chunks[i].endLine]],
     lastUpdated |-> 0]

\* saveIndex, up to its await: the serialized form of the current index
Serialize(index) ==
    [exists |-> TRUE, valid |-> TRUE,
     chunks |-> [i \in 1..Len(index.chunks) |->
                    [filePath |-> index.chunks[i].file,
                     text |-> index.chunks[i].text,
                     embedding |-> index.chunks[i].embedding,
                     startLine |-> index.chunks[i].startLine,
                     endLine |-> index.chunks[i].endLine]],
     lastUpdated |-> index.lastUpdated]

RebuildRejectedNever == FALSE

\* The guard of rebuildIndex
RebuildRejected == isIndexing

SwapIndexAppends(old, chunks, t) == [chunks |-> old.chunks \o chunks, lastUpdated |-> t]

\* The swap: a fresh index made of the rebuild's own list
SwapIndex(old, chunks, t) == [chunks |-> chunks, lastUpdated |-> t]

\* The for loop over the files, at its head, with fs the files not read yet and
\* cs the list assembled so far: the next read, or after the last file the swap
\* and saveIndex up to its write.
\* History: ls is the list getMarkdownFiles returned, lg the embedding calls so far.
NextFile(r, ls, fs, cs, lg) ==
    IF fs # <<>>
    THEN /\ rb' = [rb EXCEPT ![r] = [@ EXCEPT !.pc = "reading", !.files = fs,
                                               !.textChunks = <<>>, !.chunks = cs,
                                               !.log = lg, !.listed = ls]]
         /\ UNCHANGED <<vaultIndex, now, whole>>
    ELSE /\ now' = now + 1
         /\ vaultIndex' = SwapIndex(vaultIndex, cs, now')
         /\ whole' = [chunks |-> cs, lastUpdated |-> now']
         /\ rb' = [rb EXCEPT ![r] = [@ EXCEPT !.pc = "saving", !.files = <<>>,
                                               !.textChunks = <<>>, !.chunks = cs,
                                               !.log = lg, !.listed = ls,
                                               !.pending = Serialize(vaultIndex')]]

ProceedInPlace(r, ls, fs, tcs, cs, lg) ==
    IF tcs # <<>>
    THEN /\ rb' = [rb EXCEPT ![r] = [@ EXCEPT !.pc = "embedding", !.files = fs,
                                               !.textChunks = tcs, !.chunks = cs,
                                               !.log = lg, !.listed = ls]]
         /\ vaultIndex' = [vaultIndex EXCEPT !.chunks = cs]
         /\ UNCHANGED <<now, whole>>
    ELSE NextFile(r, ls, Tail(fs), cs, lg)

\* The loop over the chunks of the file at the head of fs, with tcs the chunks
\* not embedded yet: the next embedding request, or the next file
Proceed(r, ls, fs, tcs, cs, lg) ==
    IF tcs # <<>>
    THEN /\ rb' = [rb EXCEPT ![r] = [@ EXCEPT !.pc = "embedding", !.files = fs,
                                               !.textChunks = tcs, !.chunks = cs,
                                               !.log = lg, !.listed = ls]]
         /\ UNCHANGED <<vaultIndex, now, whole>>
    ELSE NextFile(r, ls, Tail(fs), cs, lg)

\* rebuildIndex, from the call to its first await (or its early return)
rebuildIndex(r) ==
    /\ booted
    /\ rb[r].pc = "idle"
    /\ IF RebuildRejected
       THEN /\ notice' = "already"
            /\ UNCHANGED <<vaultIndex, isIndexing, now, rb, whole>>
       ELSE /\ now < MaxNow
            /\ isIndexing' = TRUE
            /\ notice' = "building"
            /\ NextFile(r, getMarkdownFiles, getMarkdownFiles, <<>>, <<>>)
    /\ UNCHANGED <<vault, store, booted, readVars, chatVars>>

RebuildFailsKeepsFlag(r) ==
    /\ rb' = [rb EXCEPT ![r] = IdleRebuild]
    /\ notice' = "failed"
    /\ UNCHANGED <<isIndexing, vaultIndex, now, whole>>

\* The exit of rebuildIndex through catch and finally
RebuildFails(r) ==
    /\ rb' = [rb EXCEPT ![r] = IdleRebuild]
    /\ notice' = "failed"
    /\ isIndexing' = FALSE
    /\ UNCHANGED <<vaultIndex, now, whole>>

\* await cachedRead(file) resolves, or rejects (the file is gone): the outer
\* catch reports the failure and the finally block releases the flag
cachedReadDone(r) ==
    /\ rb[r].pc = "reading"
    /\ LET file == Head(rb[r].files)
       IN IF file \in vault
          THEN /\ Proceed(r, rb[r].listed, rb[r].files,
                          chunkText(Content(file), chunkSize, chunkOverlap),
                          rb[r].chunks, rb[r].log)
               /\ UNCHANGED <<isIndexing, notice>>
          ELSE RebuildFails(r)
    /\ UNCHANGED <<vault, store, booted, readVars, chatVars>>

\* await getEmbedding(chunk.text) resolves: the chunk joins the rebuild's list
EmbedOk(r) ==
    /\ rb[r].pc = "embedding"
    /\ LET chunk == Head(rb[r].textChunks)
           file == Head(rb[r].files)
       IN \E embedding \in ServiceEmbeddings(chunk.text) :
             Proceed(r, rb[r].listed, rb[r].files, Tail(rb[r].textChunks),
                     Append(rb[r].chunks,
                            [file |-> file, text |-> chunk.text,
                             embedding |-> embedding,
                             startLine |-> chunk.startLine, endLine |-> chunk.endLine,
                             gen |-> now + 1]),
                     Append(rb[r].log, [file |-> file, chunk |-> chunk, ok |-> TRUE,
                                        embedding |-> embedding]))
    /\ UNCHANGED <<vault, store, booted, isIndexing, notice, readVars, chatVars>>

EmbedFailAborts(r) ==
    /\ rb[r].pc = "embedding"
    /\ RebuildFails(r)
    /\ UNCHANGED <<vault, store, booted, readVars, chatVars>>

EmbedFailRetries(r) ==
    /\ rb[r].pc = "embedding"
    /\ Proceed(r, rb[r].listed, rb[r].files, rb[r].textChunks, rb[r].chunks,
               Append(rb[r].log, [file |-> Head(rb[r].files),
                                  chunk |-> Head(rb[r].textChunks), ok |-> FALSE,
                                  embedding |-> <<>>]))
    /\ UNCHANGED <<vault, store, booted, isIndexing, notice, readVars, chatVars>>

\* await getEmbedding(chunk.text) rejects: logged, the chunk is skipped
EmbedFail(r) ==
    /\ rb[r].pc = "embedding"
    /\ Proceed(r, rb[r].listed, rb[r].files, Tail(rb[r].textChunks), rb[r].chunks,
               Append(rb[r].log, [file |-> Head(rb[r].files),
                                  chunk |-> Head(rb[r].textChunks), ok |-> FALSE,
                                  embedding |-> <<>>]))
    /\ UNCHANGED <<vault, store, booted, isIndexing, notice, readVars, chatVars>>

\* The end of rebuildIndex after saveIndex returned: the notice, then finally
RebuildReturns(r) ==
    /\ rb' = [rb EXCEPT ![r] = IdleRebuild]
    /\ notice' = "complete"
    /\ isIndexing' = FALSE

\* adapter.write resolves
WriteOk(r) ==
    /\ rb[r].pc = "saving"
    /\ store' = rb[r].pending
    /\ RebuildReturns(r)
    /\ UNCHANGED <<vault, booted, vaultIndex, now, whole, readVars, chatVars>>

WriteFailThrows(r) ==
    /\ rb[r].pc = "saving"
    /\ rb' = [rb EXCEPT ![r] = IdleRebuild]
    /\ notice' = "failed"
    /\ isIndexing' = FALSE
    /\ UNCHANGED <<vault, store, booted, vaultIndex, now, whole, readVars, chatVars>>

\* adapter.write rejects: saveIndex logs it and returns normally
WriteFail(r) ==
    /\ rb[r].pc = "saving"
    /\ RebuildReturns(r)
    /\ UNCHANGED <<vault, store, booted, vaultIndex, now, whole, readVars, chatVars>>

\* The user deletes a note
DeleteFile(f) ==
    /\ f \in vault
    /\ vault' = vault \ {f}
    /\ UNCHANGED <<store, booted, vaultIndex, isIndexing, now, rb, notice, whole, readVars, chatVars>>

----------------------------------------------------------------------------
(* Texts of the chat: trimming, splitting, the stream's events *)

IsSpace(c) == c \in {" ", "\n", "\t"}

RECURSIVE trimStart(_)
trimStart(text) ==
    IF text # <<>> /\ IsSpace(Head(text)) THEN trimStart(Tail(text)) ELSE text

RECURSIVE trimEnd(_)
trimEnd(text) ==
    IF text # <<>> /\ IsSpace(text[Len(text)])
    THEN trimEnd(SubSeq(text, 1, Len(text) - 1)) ELSE text

\* String.prototype.trim
trim(text) == trimEnd(trimStart(text))

\* chunk.split(sep): the pieces between the separators, empty ones included
RECURSIVE split(_, _, _, _, _)
split(text, sep, i, piece, pieces) ==
    IF i > Len(text) THEN Append(pieces, piece)
    ELSE IF text[i] = sep THEN split(text, sep, i + 1, <<>>, Append(pieces, piece))
    ELSE split(text, sep, i + 1, Append(piece, text[i]), pieces)

startsWith(text, prefix) ==
    Len(text) >= Len(prefix) /\ SubSeq(text, 1, Len(prefix)) = prefix

slice(text, from) == SubSeq(text, from + 1, Len(text))

\* JSON.parse(data) and parsed.choices?.[0]?.delta?.content: whether the parse
\* succeeds, and the delta of the parsed object
ParseDelta(data) ==
    IF /\ Len(data) >= 2
       /\ data[1] = "{"
       /\ data[Len(data)] = "}"
       /\ \A k \in 2..(Len(data) - 1) : data[k] \notin {"{", "}"}
    THEN [ok |-> TRUE, delta |-> SubSeq(data, 2, Len(data) - 1)]
    ELSE [ok |-> FALSE, delta |-> <<>>]

\* The for loop of callLLMStreaming over the lines of one read
RECURSIVE ProcessLines(_, _, _)
ProcessLines(lines, i, fullContent) ==
    IF i > Len(lines) THEN fullContent
    ELSE LET line == lines[i]
             data == slice(line, 6)
             parsed == ParseDelta(data)
         IN IF startsWith(line, DataPrefix) /\ data # DoneSentinel
               /\ parsed.ok /\ parsed.delta # <<>>
            THEN ProcessLines(lines, i + 1, fullContent \o parsed.delta)
            ELSE ProcessLines(lines, i + 1, fullContent)

\* The body of the while loop of callLLMStreaming for one read that is not done
ProcessRead(value, fullContent) ==
    ProcessLines(split(value, "\n", 1, <<>>, <<>>), 1, fullContent)

\* A piece of the system message: what it is, the note it names, its lines
Part(kind, source, text) == [kind |-> kind, source |-> source, text |-> text]

\* "\n\n--- basename ---\n" and the content of a context note
DocumentPart(file) == Part("document", file, Content(file))

\* "\n\n[From basename]:\n" and the text of a chunk
ChunkPart(chunk) == Part("chunk", chunk.file, chunk.text)

\* The end of contextText: the semantic results of the view, under their header
SemanticParts(results) ==
    IF Len(results) > 0
    THEN <<Part("chunksHeader", "", <<>>)>> \o [k \in 1..Len(results) |-> ChunkPart(results[k])]
    ELSE <<>>

\* systemContent: the system prompt, the user's name if set, the context if any
SystemContent(name, contextText) ==
    <<Part("base", "", <<SystemPrompt>>)>>
    \o (IF name # "" THEN <<Part("identity", "", <<name>>)>> ELSE <<>>)
    \o (IF contextText # <<>> THEN <<Part("notesHeader", "", <<>>)>> \o contextText ELSE <<>>)

\* sendMessage after its context loop, up to the fetch of callLLMStreaming:
\* apiMessages is the system message and a copy of the history
IssueRequest(send, results, history) ==
    [send EXCEPT !.pc = "fetch", !.notes = <<>>, !.i = 0, !.shared = FALSE,
                 !.contextText = <<>>,
                 !.request = [system |-> SystemContent(userName,
                                            send.contextText \o SemanticParts(results)),
                              history |-> history]]

\* The head of the context loop of sendMessage: the array it iterates, or with
\* no context note the request of callLLMStreaming
BeginContext(send, results, history) ==
    IF Len(contextNotes) = 0
    THEN IssueRequest(send, results, history)
    ELSE [send EXCEPT !.pc = "reading", !.notes = contextNotes, !.i = 1, !.shared = TRUE]

\* await performSemanticSearch(userInput) returns to the sendMessage that called it
SearchReturns(results, outcome) ==
    snd' = [s \in 1..Len(snd) |->
               IF snd[s].pc = "search"
               THEN BeginContext([snd[s] EXCEPT !.search = outcome], results, messages)
               ELSE snd[s]]

restVars == <<messages, isLoading, inputValue, apiKey, useSemanticSearch, contextNotes,
              submit, last, viewVars>>

----------------------------------------------------------------------------
(* Chat-time semantic search: performSemanticSearch and semanticSearch *)

\* performSemanticSearch(query) for a non-blank query, as sendMessage calls it
\* when semantic search is on: from the call to the await in semanticSearch, or
\* the early return on an empty index.
\* History: torn tells whether the scan read an index value other than the latest
\* whole one (the index before a swap, or the new index after it), during
\* whether a rebuild was in flight when the scan ran, seen (while the search
\* waits) the index that was current when the search started.
performSemanticSearch ==
    /\ booted
    /\ sr.pc = "idle"
    /\ sr' = IF Len(vaultIndex.chunks) = 0
             THEN [IdleSearch EXCEPT !.outcome = "noindex"]
             ELSE [IdleSearch EXCEPT !.pc = "embedding", !.seen = vaultIndex]
    /\ UNCHANGED <<plugVars, semanticResults, disc, similarNotes, discoverThreshold, chatVars>>

\* await getEmbedding(query) resolves: the scan of the current index
SearchEmbedOk ==
    /\ sr.pc = "embedding"
    /\ \E queryEmbedding \in QueryEmbeddings :
          semanticResults' = searchIndex(vaultIndex, queryEmbedding, topK)
    /\ sr' = [pc |-> "idle", outcome |-> "ok", torn |-> vaultIndex # whole,
              during |-> isIndexing, seen |-> EmptyIndex]
    /\ SearchReturns(semanticResults', "ok")
    /\ UNCHANGED <<plugVars, disc, similarNotes, discoverThreshold, restVars>>

\* await getEmbedding(query) rejects: semanticSearch throws, the catch logs it
SearchEmbedFail ==
    /\ sr.pc = "embedding"
    /\ sr' = [IdleSearch EXCEPT !.outcome = "error"]
    /\ SearchReturns(semanticResults, "error")
    /\ UNCHANGED <<plugVars, semanticResults, disc, similarNotes, discoverThreshold, restVars>>

----------------------------------------------------------------------------
(* Discovery: findSimilarNotes *)

RECURSIVE Gcd(_, _)
Gcd(a, b) == IF b = 0 THEN a ELSE Gcd(b, a % b)

\* The quotient num / den in lowest terms: the same number
Quotient(num, den) ==
    LET g == Gcd(IF num < 0 THEN -num ELSE num, den)
    IN [nan |-> FALSE, num |-> num \div g, den |-> den \div g]

ScoreAdd(x, y) ==
    IF x.nan \/ y.nan THEN NaN
    ELSE Quotient(x.num * y.den + y.num * x.den, x.den * y.den)

ScoreDiv(x, n) ==
    IF x.nan \/ n = 0 THEN NaN ELSE Quotient(x.num, x.den * n)

\* x >= y on scores; every comparison with NaN is false
ScoreGE(x, y) == ~x.nan /\ ~y.nan /\ x.num * y.den >= y.num * x.den

RECURSIVE ScoreSum(_, _)
ScoreSum(scores, i) ==
    IF i > Len(scores) THEN [nan |-> FALSE, num |-> 0, den |-> 1]
    ELSE ScoreAdd(scores[i].score, ScoreSum(scores, i + 1))

\* The keys of the fileScores map, in insertion order
RECURSIVE FileKeys(_, _, _, _)
FileKeys(chunks, file, i, keys) ==
    IF i > Len(chunks) THEN keys
    ELSE LET path == chunks[i].file
         IN FileKeys(chunks, file, i + 1,
                     IF path = file \/ \E k \in 1..Len(keys) : keys[k] = path
                     THEN keys ELSE Append(keys, path))

\* The list findSimilarNotes stores for the reference document `file`
FindSimilar(index, file, queryEmbedding, threshold) ==
    LET keys == FileKeys(index.chunks, file, 1, <<>>)
        Matching(path) ==
            LET own == SelectSeq(index.chunks, LAMBDA c : c.file = path)
            IN [i \in 1..Len(own) |->
                   [text |-> own[i].text, startLine |-> own[i].startLine,
                    endLine |-> own[i].endLine,
                    score |-> cosineSimilarity(queryEmbedding, own[i].embedding)]]
        Entry(path) ==
            LET chunks == Matching(path)
                avgScore == ScoreDiv(ScoreSum(chunks, 1), Len(chunks))
                sorted == SortScored(chunks, 1, <<>>)
            IN [file |-> path, score |-> avgScore,
                selected |-> ScoreGE(avgScore, threshold),
                matchingChunks |-> SubSeq(sorted, 1, Min(5, Len(sorted)))]
    IN SortScored([k \in 1..Len(keys) |-> Entry(keys[k])], 1, <<>>)

\* filterSimilarNotes: the selection follows the threshold
FilterSimilar(notes, threshold) ==
    [i \in 1..Len(notes) |-> [notes[i] EXCEPT !.selected = ScoreGE(notes[i].score, threshold)]]

\* renderSimilarNotes: the entries at or above the threshold, or a hint
renderSimilarNotes(notes, threshold) ==
    IF Len(notes) = 0 THEN Shows("none")
    ELSE LET filtered == SelectSeq(notes, LAMBDA n : ScoreGE(n.score, threshold))
         IN IF Len(filtered) = 0 THEN Shows("below")
            ELSE [kind |-> "list",
                  items |-> [i \in 1..Len(filtered) |->
                                [file |-> filtered[i].file, score |-> filtered[i].score]]]

\* findSimilarNotes(file), from the call to its first await (or its early return)
findSimilarNotes(file) ==
    /\ booted
    /\ disc.pc = "idle"
    /\ file \in vault
    /\ disc' = IF Len(vaultIndex.chunks) = 0
               THEN [IdleDiscover EXCEPT !.file = file, !.outcome = "noindex"]
               ELSE [IdleDiscover EXCEPT !.file = file, !.pc = "reading",
                                         !.seen = vaultIndex]
    /\ discoverContainer' = IF Len(vaultIndex.chunks) = 0
                             THEN Shows("noindex") ELSE Shows("loading")
    /\ UNCHANGED <<plugVars, sr, semanticResults, similarNotes, discoverThreshold, paneVars>>

\* await cachedRead(file) resolves, or rejects and the catch shows the error
DiscoverReadDone ==
    /\ disc.pc = "reading"
    /\ disc' = IF disc.file \in vault
               THEN [disc EXCEPT !.pc = "embedding"]
               ELSE [disc EXCEPT !.pc = "idle", !.outcome = "error",
                                 !.seen = EmptyIndex]
    /\ discoverContainer' = IF disc.file \in vault THEN discoverContainer
                             ELSE Shows("error")
    /\ UNCHANGED <<plugVars, sr, semanticResults, similarNotes, discoverThreshold, paneVars>>

\* await getEmbedding resolves: the scan of the current index
DiscoverEmbedOk ==
    /\ disc.pc = "embedding"
    /\ \E queryEmbedding \in QueryEmbeddings :
          similarNotes' =
              FilterSimilar(FindSimilar(vaultIndex, disc.file, queryEmbedding,
                                        discoverThreshold),
                            discoverThreshold)
    /\ disc' = [disc EXCEPT !.pc = "idle", !.outcome = "ok",
                            !.torn = vaultIndex # whole, !.during = isIndexing,
                            !.seen = EmptyIndex]
    /\ discoverContainer' = renderSimilarNotes(similarNotes', discoverThreshold)
    /\ UNCHANGED <<plugVars, sr, semanticResults, discoverThreshold, paneVars>>

\* await getEmbedding rejects: the catch shows the error
DiscoverEmbedFail ==
    /\ disc.pc = "embedding"
    /\ disc' = [disc EXCEPT !.pc = "idle", !.outcome = "error", !.seen = EmptyIndex]
    /\ discoverContainer' = Shows("error")
    /\ UNCHANGED <<plugVars, sr, semanticResults, similarNotes, discoverThreshold, paneVars>>

\* The positions of the threshold slider (min 0, max 100) the model moves it to
ThresholdValues == {0, 60, 70, 100}

SlideThresholdKeepsSelection(value) ==
    /\ discoverThreshold' = Quotient(value, 100)
    /\ similarNotes' = similarNotes
    /\ discoverContainer' = renderSimilarNotes(similarNotes', discoverThreshold')
    /\ UNCHANGED <<plugVars, sr, semanticResults, disc, paneVars>>

\* thresholdSlider.oninput
SlideThreshold(value) ==
    /\ discoverThreshold' = Quotient(value, 100)
    /\ similarNotes' = FilterSimilar(similarNotes, discoverThreshold')
    /\ discoverContainer' = renderSimilarNotes(similarNotes', discoverThreshold')
    /\ UNCHANGED <<plugVars, sr, semanticResults, disc, paneVars>>

\* The settings tab, "Default Similarity Threshold": onChange with parseInt(value) = num
SetDiscoverThreshold(num) ==
    /\ discoverThreshold' = IF num >= 0 /\ num <= 100 THEN Quotient(num, 100)
                             ELSE discoverThreshold
    /\ UNCHANGED <<plugVars, sr, semanticResults, disc, similarNotes, chatVars>>

One == [nan |-> FALSE, num |-> 1, den |-> 1]

DropNoteAppendsAlways(filePath) ==
    /\ similarNotes' =
           IF filePath \in vault
           THEN Append(similarNotes, [file |-> filePath, score |-> One, selected |-> TRUE,
                                      matchingChunks |-> <<>>])
           ELSE similarNotes
    /\ discoverContainer' =
           IF similarNotes' # similarNotes
           THEN renderSimilarNotes(similarNotes', discoverThreshold) ELSE discoverContainer
    /\ UNCHANGED <<plugVars, sr, semanticResults, disc, discoverThreshold, paneVars>>

\* The drop handler of the discover list, given the path of a note
DropNote(filePath) ==
    /\ similarNotes' =
           IF filePath \in vault
              /\ ~\E i \in 1..Len(similarNotes) : similarNotes[i].file = filePath
           THEN Append(similarNotes, [file |-> filePath, score |-> One, selected |-> TRUE,
                                      matchingChunks |-> <<>>])
           ELSE similarNotes
    /\ discoverContainer' =
           IF similarNotes' # similarNotes
           THEN renderSimilarNotes(similarNotes', discoverThreshold) ELSE discoverContainer
    /\ UNCHANGED <<plugVars, sr, semanticResults, disc, discoverThreshold, paneVars>>

\* The remove button of a shown entry
removeSimilarNote(filePath) ==
    /\ \E i \in 1..Len(discoverContainer.items) : discoverContainer.items[i].file = filePath
    /\ similarNotes' = SelectSeq(similarNotes, LAMBDA n : n.file # filePath)
    /\ discoverContainer' = renderSimilarNotes(similarNotes', discoverThreshold)
    /\ UNCHANGED <<plugVars, sr, semanticResults, disc, discoverThreshold, paneVars>>

clearSimilarNotes ==
    /\ similarNotes' = <<>>
    /\ discoverContainer' = renderSimilarNotes(similarNotes', discoverThreshold)
    /\ UNCHANGED <<plugVars, sr, semanticResults, disc, discoverThreshold, paneVars>>

\* createHubNote: the related notes of the document it builds from the
\* selected entries, with the entries the list showed when it was called
createHubNote ==
    LET selected == SelectSeq(similarNotes, LAMBDA n : n.selected)
    IN /\ hubNote' = IF Len(selected) = 0 THEN hubNote
                      ELSE <<[notes |-> [i \in 1..Len(selected) |->
                                           [file |-> selected[i].file,
                                            score |-> selected[i].score]],
                              shown |-> discoverContainer.items]>>
       /\ UNCHANGED <<plugVars, readVars, messages, isLoading, inputValue, apiKey,
                      useSemanticSearch, contextNotes, snd, submit, last, userName,
                      maxTokens, tokenDisplay, upd, call, discoverContainer>>

----------------------------------------------------------------------------
(* The chat orchestrator: sendMessage, callLLMStreaming, clearChat *)

searchFrame == <<disc, similarNotes, discoverThreshold>>

\* The user types: the input box is disabled while a send is loading
TypeInput(v) ==
    /\ booted
    /\ ~isLoading
    /\ v # inputValue
    /\ inputValue' = v
    /\ UNCHANGED <<plugVars, readVars, messages, isLoading, apiKey, useSemanticSearch,
                   contextNotes, snd, submit, last,
                   viewVars>>

\* The settings tab: the API key is set or emptied.  sendMessage reads the
\* settings before its first await only: they change between the sends
SetApiKey(k) ==
    /\ booted
    /\ snd = <<>>
    /\ k # apiKey
    /\ apiKey' = k
    /\ UNCHANGED <<plugVars, readVars, messages, isLoading, inputValue, useSemanticSearch,
                   contextNotes, snd, submit, last,
                   viewVars>>

\* The settings tab: the user's name is set or emptied, between the sends
SetUserName(name) ==
    /\ booted
    /\ snd = <<>>
    /\ name # userName
    /\ userName' = name
    /\ UNCHANGED <<plugVars, readVars, messages, isLoading, inputValue, apiKey,
                   useSemanticSearch, contextNotes, snd, submit, last,
                   maxTokens, tokenDisplay, upd, call,
                   discoverContainer, hubNote>>

\* The semantic search toggle
ToggleSemanticSearch ==
    /\ booted
    /\ snd = <<>>
    /\ useSemanticSearch' = ~useSemanticSearch
    /\ UNCHANGED <<plugVars, readVars, messages, isLoading, inputValue, apiKey,
                   contextNotes, snd, submit, last,
                   viewVars>>

\* A note is added to the context: pushed onto the array, which a context loop
\* may be iterating
AddContext(f) ==
    /\ booted
    /\ f \in vault
    /\ \A k \in 1..Len(contextNotes) : contextNotes[k] # f
    /\ contextNotes' = Append(contextNotes, f)
    /\ snd' = [s \in 1..Len(snd) |->
                 IF snd[s].pc = "reading" /\ snd[s].shared
                 THEN [snd[s] EXCEPT !.notes = Append(@, f)] ELSE snd[s]]
    /\ upd' = [u \in 1..Len(upd) |->
                 IF upd[u].shared THEN [upd[u] EXCEPT !.notes = Append(@, f)] ELSE upd[u]]
    /\ UNCHANGED <<plugVars, readVars, messages, isLoading, inputValue, apiKey,
                   useSemanticSearch, submit, last, userName, maxTokens, tokenDisplay, call,
                   discoverContainer, hubNote>>

\* New chat
clearChat ==
    /\ booted
    /\ messages' = <<>>
    /\ semanticResults' = <<>>
    /\ contextNotes' = <<>>
    /\ snd' = [s \in 1..Len(snd) |-> [snd[s] EXCEPT !.shared = FALSE, !.cleared = TRUE]]
    /\ upd' = [u \in 1..Len(upd) |-> [upd[u] EXCEPT !.shared = FALSE]]
    /\ UNCHANGED <<plugVars, sr, searchFrame, isLoading, inputValue, apiKey,
                   useSemanticSearch, submit, last, userName, maxTokens, tokenDisplay, call,
                   discoverContainer, hubNote>>

SendRejectedIgnoresKey == trim(inputValue) = <<>> \/ isLoading

SendRejectedOverBudget ==
    \/ trim(inputValue) = <<>> \/ isLoading \/ ~apiKey
    \/ 100 * CeilDiv(Len(SystemPrompt) + Len(messages) + Len(trim(inputValue)), 4)
          >= 95 * maxTokens

\* The guard of sendMessage
SendRejected == trim(inputValue) = <<>> \/ isLoading \/ ~apiKey

\* sendMessage, from the call to its first await (or its early return)
sendMessage ==
    /\ booted
    /\ Len(messages) + 2 <= MaxMessages
    /\ IF SendRejected
       THEN /\ submit' = "rejected"
            /\ UNCHANGED <<messages, isLoading, inputValue, snd, sr, last,
                   viewVars>>
       ELSE LET userInput == trim(inputValue)
                user == [role |-> "user", content |-> userInput]
                send == [NewSend EXCEPT !.before = messages, !.user = user]
            IN /\ submit' = "accepted"
               /\ last' = NoOutcome
               /\ isLoading' = TRUE
               /\ messages' = Append(messages, user)
               /\ inputValue' = <<>>
               /\ IF useSemanticSearch /\ Len(vaultIndex.chunks) > 0
                  THEN /\ sr' = [IdleSearch EXCEPT !.pc = "embedding", !.seen = vaultIndex]
                       /\ snd' = Append(snd, [send EXCEPT !.pc = "search",
                                                            !.search = "pending"])
                  ELSE /\ sr' = sr
                       /\ snd' = Append(snd,
                              BeginContext([send EXCEPT !.search =
                                               IF useSemanticSearch THEN "empty" ELSE "off"],
                                           semanticResults, messages'))
    /\ UNCHANGED <<plugVars, semanticResults, searchFrame, apiKey, useSemanticSearch,
                   contextNotes,
                   viewVars>>

\* The sends in flight without send s, which has ended
Ended(s) == SubSeq(snd, 1, s - 1) \o SubSeq(snd, s + 1, Len(snd))

\* await cachedRead(file) of the context loop resolves, or rejects (the note is
\* gone): the loop is outside the try block, so sendMessage ends there
ContextReadDone(s) ==
    /\ snd[s].pc = "reading"
    /\ IF snd[s].notes[snd[s].i] \in vault
       THEN /\ snd' = [snd EXCEPT ![s] =
                         LET read == [snd[s] EXCEPT !.contextText =
                                         Append(@, DocumentPart(snd[s].notes[snd[s].i]))]
                         IN IF snd[s].i < Len(snd[s].notes)
                            THEN [read EXCEPT !.i = @ + 1]
                            ELSE IssueRequest(read, semanticResults, messages)]
            /\ UNCHANGED last
       ELSE /\ snd' = Ended(s)
            /\ last' = [outcome |-> "threw", cleared |-> snd[s].cleared,
                        partial |-> FALSE]
    /\ UNCHANGED <<plugVars, readVars, messages, isLoading, inputValue, apiKey,
                   useSemanticSearch, contextNotes, submit,
                   viewVars>>

\* Array.prototype.pop
pop(array) == IF array = <<>> THEN <<>> ELSE SubSeq(array, 1, Len(array) - 1)

SendFailsKeepsUser(s, cause) ==
    /\ isLoading' = FALSE
    /\ snd' = Ended(s)
    /\ last' = [outcome |-> cause, cleared |-> snd[s].cleared,
                partial |-> snd[s].fullContent # <<>>]
    /\ UNCHANGED <<plugVars, readVars, messages, inputValue, apiKey, useSemanticSearch,
                   contextNotes, submit,
                   viewVars>>

\* callLLMStreaming throws: the catch and finally blocks of sendMessage
SendFails(s, cause) ==
    /\ messages' = pop(messages)
    /\ isLoading' = FALSE
    /\ snd' = Ended(s)
    /\ last' = [outcome |-> cause, cleared |-> snd[s].cleared,
                partial |-> snd[s].fullContent # <<>>]
    /\ UNCHANGED <<plugVars, readVars, inputValue, apiKey, useSemanticSearch,
                   contextNotes, submit,
                   viewVars>>

\* await fetch rejects: a transport error
FetchRejects(s) ==
    /\ snd[s].pc = "fetch"
    /\ SendFails(s, "transport")

\* await fetch resolves with a status that is not ok: the error text is awaited
FetchNotOk(s) ==
    /\ snd[s].pc = "fetch"
    /\ snd' = [snd EXCEPT ![s] = [@ EXCEPT !.pc = "errorText", !.request = NoRequest]]
    /\ UNCHANGED <<plugVars, readVars, restVars>>

\* await response.text() settles: the API error is thrown
ErrorTextDone(s) ==
    /\ snd[s].pc = "errorText"
    /\ SendFails(s, "status")

\* await fetch resolves ok with no body: no reader
FetchNoBody(s) ==
    /\ snd[s].pc = "fetch"
    /\ SendFails(s, "nobody")

\* await fetch resolves ok with the body the service streams
FetchOk(s, stream) ==
    /\ snd[s].pc = "fetch"
    /\ snd' = [snd EXCEPT ![s] = [@ EXCEPT !.pc = "stream", !.wire = stream,
                                            !.stream = stream, !.request = NoRequest]]
    /\ UNCHANGED <<plugVars, readVars, restVars>>

\* await reader.read() resolves with the next n characters of the body
StreamRead(s) ==
    /\ snd[s].pc = "stream"
    /\ \E n \in 1..Len(snd[s].wire) :
          snd' = [snd EXCEPT ![s] =
                     [@ EXCEPT !.wire = SubSeq(@, n + 1, Len(@)),
                               !.fullContent = ProcessRead(SubSeq(snd[s].wire, 1, n), @)]]
    /\ UNCHANGED <<plugVars, readVars, restVars>>

\* await reader.read() resolves done: callLLMStreaming returns fullContent and
\* sendMessage commits it
StreamDone(s) ==
    /\ snd[s].pc = "stream"
    /\ snd[s].wire = <<>>
    /\ messages' = Append(messages, [role |-> "assistant",
                                      content |-> snd[s].fullContent])
    /\ isLoading' = FALSE
    /\ snd' = Ended(s)
    /\ last' = [outcome |-> "committed", cleared |-> snd[s].cleared,
                partial |-> FALSE]
    /\ UNCHANGED <<plugVars, readVars, inputValue, apiKey, useSemanticSearch,
                   contextNotes, submit,
                   viewVars>>

\* await reader.read() rejects: the stream breaks
StreamError(s) ==
    /\ snd[s].pc = "stream"
    /\ SendFails(s, "stream")

----------------------------------------------------------------------------
(* The token counter: updateTokenDisplay.  renderMessages, renderContextList *)
(* and performSemanticSearch call it after they change the view; the call is *)
(* an action of its own here, taken in any state of the view.  A text is the *)
(* sequence of the strings that += glues together.                           *)

\* text.length
RECURSIVE Length(_)
Length(text) == IF text = <<>> THEN 0 ELSE Len(Head(text)) + Length(Tail(text))

\* lines.join("\n")
RECURSIVE Join(_)
Join(lines) ==
    IF Len(lines) <= 1 THEN lines
    ELSE <<Head(lines), "\n">> \o Join(Tail(lines))

\* totalText after the system prompt and the user's name
SystemText(name) ==
    <<SystemPrompt>> \o (IF name # "" THEN <<"\n\nThe user's name is ", name, ".">> ELSE <<>>)

\* What the loop over the context notes adds for a note
DocumentText(file) == <<"\n\n--- ", Basename(file), " ---\n">> \o Join(Content(file))

\* What the loop over the semantic results adds
RECURSIVE ChunksText(_)
ChunksText(results) ==
    IF results = <<>> THEN <<>>
    ELSE <<"\n\n[From ", Basename(Head(results).file), "]:\n">> \o Join(Head(results).text)
         \o ChunksText(Tail(results))

\* What the loop over the messages adds
RECURSIVE MessagesText(_)
MessagesText(history) ==
    IF history = <<>> THEN <<>> ELSE Head(history).content \o MessagesText(Tail(history))

TokenLevelStrict(tokens, max) ==
    IF 100 * tokens > 95 * max THEN {"danger"}
    ELSE IF 100 * tokens > 80 * max THEN {"warning"}
    ELSE {}

\* The class added after both were removed: percentage = (tokens / maxTokens)
\* * 100 against 95 and 80
TokenLevel(tokens, max) ==
    IF 100 * tokens >= 95 * max THEN {"danger"}
    ELSE IF 100 * tokens >= 80 * max THEN {"warning"}
    ELSE {}

\* The early return of updateTokenDisplay: the chat is empty
ZeroDisplay == [classes |-> {}, banner |-> "hidden", done |-> 1 - tokenDisplay.done]

\* The end of updateTokenDisplay, after the loop over the context notes
ShowTokens(totalText) ==
    LET text == totalText \o ChunksText(semanticResults) \o MessagesText(messages)
        tokens == CeilDiv(Length(text), 4)
        classes == TokenLevel(tokens, maxTokens)
    IN [classes |-> classes,
        banner |-> IF "danger" \in classes THEN "red"
                   ELSE IF "warning" \in classes THEN "yellow" ELSE "hidden",
        done |-> 1 - tokenDisplay.done]

\* updateTokenDisplay, from the call to its first await, or to its end when
\* there is no context note to read
updateTokenDisplay ==
    /\ booted
    /\ Len(upd) < MaxUpdates
    /\ IF messages = <<>> /\ contextNotes = <<>> /\ semanticResults = <<>>
       THEN tokenDisplay' = ZeroDisplay /\ upd' = upd
       ELSE IF contextNotes = <<>>
       THEN tokenDisplay' = ShowTokens(SystemText(userName)) /\ upd' = upd
       ELSE /\ upd' = Append(upd, [notes |-> contextNotes, i |-> 1, shared |-> TRUE,
                                    totalText |-> SystemText(userName)])
            /\ tokenDisplay' = tokenDisplay
    /\ UNCHANGED <<plugVars, readVars, messages, isLoading, inputValue, apiKey,
                   useSemanticSearch, contextNotes, snd, submit, last, userName, maxTokens, call,
                   discoverContainer, hubNote>>

\* The updates in flight without update u
Without(u) == SubSeq(upd, 1, u - 1) \o SubSeq(upd, u + 1, Len(upd))

\* await cachedRead(file) of updateTokenDisplay resolves, or rejects (the note
\* is gone) and the update ends there
TokenReadDone(u) ==
    /\ IF upd[u].notes[upd[u].i] \in vault
       THEN LET totalText == upd[u].totalText \o DocumentText(upd[u].notes[upd[u].i])
            IN IF upd[u].i < Len(upd[u].notes)
               THEN /\ upd' = [upd EXCEPT ![u] = [@ EXCEPT !.i = @ + 1,
                                                            !.totalText = totalText]]
                    /\ tokenDisplay' = tokenDisplay
               ELSE /\ upd' = Without(u)
                    /\ tokenDisplay' = ShowTokens(totalText)
       ELSE /\ upd' = Without(u)
            /\ tokenDisplay' = tokenDisplay
    /\ UNCHANGED <<plugVars, readVars, messages, isLoading, inputValue, apiKey,
                   useSemanticSearch, contextNotes, snd, submit, last, userName, maxTokens, call,
                   discoverContainer, hubNote>>

\* The settings tab: a positive number is typed into Max Context Tokens
SetMaxTokens(num) ==
    /\ booted
    /\ num # maxTokens
    /\ maxTokens' = num
    /\ UNCHANGED <<plugVars, readVars, messages, isLoading, inputValue, apiKey,
                   useSemanticSearch, contextNotes, snd, submit, last, userName,
                   tokenDisplay, upd, call,
                   discoverContainer, hubNote>>

----------------------------------------------------------------------------
(* Specifications *)


RebuildNext ==
    \/ loadIndex
    \/ \E r \in Invocations : rebuildIndex(r)
    \/ \E r \in Invocations : cachedReadDone(r)
    \/ \E r \in Invocations : EmbedOk(r)
    \/ \E r \in Invocations : EmbedFail(r)
    \/ \E r \in Invocations : WriteOk(r)
    \/ \E r \in Invocations : WriteFail(r)
    \/ \E f \in Files : DeleteFile(f)

\* The plugin alone: startup, rebuilds, persistence
SpecIndex == Init /\ [][RebuildNext]_vars

\* The application is closed with no rebuild in flight and opened again: a new
\* plugin object with the fields of construction, over the vault and the index
\* file as they are
Restart ==
    /\ booted
    /\ ~isIndexing
    /\ \A r \in Invocations : rb[r].pc = "idle"
    /\ booted' = FALSE
    /\ vaultIndex' = EmptyIndex
    /\ whole' = EmptyIndex
    /\ notice' = "none"
    /\ UNCHANGED <<vault, store, isIndexing, now, rb, readVars, chatVars>>

PersistNext ==
    \/ loadIndex
    \/ rebuildIndex(1)
    \/ cachedReadDone(1)
    \/ EmbedOk(1)
    \/ EmbedFail(1)
    \/ WriteOk(1)
    \/ WriteFail(1)
    \/ \E f \in Files : DeleteFile(f)
    \/ Restart

\* The plugin over several sessions: rebuilds persist the index, the next
\* session loads it
SpecPersist == Init /\ [][PersistNext]_vars

\* The flag lets one rebuild run at a time: the searches are interleaved with the
\* steps of one invocation, which swaps MaxSearchNow - 1 times
MaxSearchNow == 2

SearchNext ==
    \/ loadIndex
    \/ (now < MaxSearchNow /\ rebuildIndex(1))
    \/ cachedReadDone(1)
    \/ EmbedOk(1)
    \/ EmbedFail(1)
    \/ WriteOk(1)
    \/ WriteFail(1)
    \/ DeleteFile("b.md")
    \/ performSemanticSearch
    \/ SearchEmbedOk
    \/ SearchEmbedFail
    \/ \E f \in Files : findSimilarNotes(f)
    \/ DiscoverReadDone
    \/ DiscoverEmbedOk
    \/ DiscoverEmbedFail

\* The plugin with the searches that read its index
SpecSearch == Init /\ [][SearchNext]_vars

ChatNext ==
    \/ loadIndex
    \/ DeleteFile("b.md")
    \/ \E v \in Inputs : TypeInput(v)
    \/ \E k \in BOOLEAN : SetApiKey(k)
    \/ ToggleSemanticSearch
    \/ \E f \in Files : AddContext(f)
    \/ clearChat
    \/ sendMessage
    \/ SearchEmbedOk
    \/ SearchEmbedFail
    \/ \E s \in 1..Len(snd) : ContextReadDone(s)
    \/ \E s \in 1..Len(snd) : FetchRejects(s)
    \/ \E s \in 1..Len(snd) : FetchNotOk(s)
    \/ \E s \in 1..Len(snd) : ErrorTextDone(s)
    \/ \E s \in 1..Len(snd) : FetchNoBody(s)
    \/ \E s \in 1..Len(snd), stream \in ShortStreams : FetchOk(s, stream)
    \/ \E s \in 1..Len(snd) : StreamRead(s)
    \/ \E s \in 1..Len(snd) : StreamDone(s)
    \/ \E s \in 1..Len(snd) : StreamError(s)

\* The chat view over a loaded index
SpecChat == Init /\ [][ChatNext]_vars

StreamNext ==
    \/ loadIndex
    \/ \E v \in Inputs : TypeInput(v)
    \/ sendMessage
    \/ \E s \in 1..Len(snd), stream \in Streams : FetchOk(s, stream)
    \/ \E s \in 1..Len(snd) : StreamRead(s)
    \/ \E s \in 1..Len(snd) : StreamDone(s)
    \/ \E s \in 1..Len(snd) : StreamError(s)

\* The sends of an undisturbed chat view, over every body and every division
\* of it into reads
SpecStream == Init /\ [][StreamNext]_vars

PromptNext ==
    \/ loadIndex
    \/ \E v \in Inputs : TypeInput(v)
    \/ \E name \in UserNames : SetUserName(name)
    \/ ToggleSemanticSearch
    \/ \E f \in Files : AddContext(f)
    \/ clearChat
    \/ sendMessage
    \/ SearchEmbedOk
    \/ SearchEmbedFail
    \/ \E s \in 1..Len(snd) : ContextReadDone(s)
    \/ \E s \in 1..Len(snd), stream \in ShortStreams : FetchOk(s, stream)
    \/ \E s \in 1..Len(snd) : StreamRead(s)
    \/ \E s \in 1..Len(snd) : StreamDone(s)

\* The chat view with its settings over a loaded index: what each send puts
\* into its completion request
SpecPrompt == Init /\ [][PromptNext]_vars

RefreshNext ==
    \/ loadIndex
    \/ (now < MaxSearchNow /\ rebuildIndex(1))
    \/ cachedReadDone(1)
    \/ EmbedOk(1)
    \/ EmbedFail(1)
    \/ WriteOk(1)
    \/ \E f \in Files : DeleteFile(f)
    \/ \E v \in Inputs : TypeInput(v)
    \/ ToggleSemanticSearch
    \/ sendMessage
    \/ SearchEmbedOk
    \/ SearchEmbedFail
    \/ \E s \in 1..Len(snd), stream \in ShortStreams : FetchOk(s, stream)
    \/ \E s \in 1..Len(snd) : StreamRead(s)
    \/ \E s \in 1..Len(snd) : StreamDone(s)
    \/ \E s \in 1..Len(snd) : FetchRejects(s)

\* The sends of a chat view whose index a rebuild replaces
SpecRefresh == Init /\ [][RefreshNext]_vars

\* Startup finds the index file of an earlier session
InitTokens == Init /\ store = StoredSample

TokensNext ==
    \/ loadIndex
    \/ TypeInput(<<"h", "i">>)
    \/ \E name \in UserNames : SetUserName(name)
    \/ \E num \in MaxTokensValues : SetMaxTokens(num)
    \/ \E f \in Files : AddContext(f)
    \/ clearChat
    \/ performSemanticSearch
    \/ SearchEmbedOk
    \/ sendMessage
    \/ \E s \in 1..Len(snd) : ContextReadDone(s)
    \/ \E s \in 1..Len(snd) : FetchRejects(s)
    \/ updateTokenDisplay
    \/ \E u \in 1..Len(upd) : TokenReadDone(u)

\* The chat view with its token counter and the settings the counter reads
SpecTokens == InitTokens /\ [][TokensNext]_vars

BudgetNext ==
    \/ loadIndex
    \/ \E v \in Inputs : TypeInput(v)
    \/ \E name \in UserNames : SetUserName(name)
    \/ \E num \in MaxTokensValues : SetMaxTokens(num)
    \/ \E f \in Files : AddContext(f)
    \/ clearChat
    \/ performSemanticSearch
    \/ SearchEmbedOk
    \/ sendMessage
    \/ \E s \in 1..Len(snd) : ContextReadDone(s)
    \/ \E s \in 1..Len(snd), stream \in ShortStreams : FetchOk(s, stream)
    \/ \E s \in 1..Len(snd) : StreamRead(s)
    \/ \E s \in 1..Len(snd) : StreamDone(s)

\* The sends of a chat view whose token budget the settings change
SpecBudget == InitTokens /\ [][BudgetNext]_vars

\* Startup finds the index file of both notes
InitDiscover == InitOver({StoredDiscover})

\* The paths dropped on the discover list: the notes and a path of no file
DropPaths == Files \cup {"none.md"}

DiscoverNext ==
    \/ loadIndex
    \/ \E f \in Files : findSimilarNotes(f)
    \/ DiscoverReadDone
    \/ DiscoverEmbedOk
    \/ DiscoverEmbedFail
    \/ \E value \in ThresholdValues : SlideThreshold(value)
    \/ \E num \in ThresholdValues \cup {101} : SetDiscoverThreshold(num)
    \/ \E filePath \in DropPaths : DropNote(filePath)
    \/ \E filePath \in Files : removeSimilarNote(filePath)
    \/ clearSimilarNotes
    \/ createHubNote

\* The discover view: discovery runs, the threshold, the list and hub notes
SpecDiscover == InitDiscover /\ [][DiscoverNext]_vars

----------------------------------------------------------------------------
(* The ranking functions, applied to indexes and queries of any content *)

MaxRank == 3

\* Embeddings a service or an index file can hold: equal and different
\* directions, a multiple of another, the zero vector, another dimension
RankEmbeddings == {<<3, 4>>, <<4, 3>>, <<0, 5>>, <<6, 8>>, <<0, 0>>, <<3>>}

RankQueries == {<<3, 4>>, <<0, 5>>, <<0, 0>>}

\* The indexes of n chunks; chunk i covers line i - 1 of a.md
RankIndexes(n) ==
    { [chunks |-> [i \in 1..n |-> [file |-> "a.md", text |-> <<"abcd">>,
                                   embedding |-> e[i],
                                   startLine |-> i - 1, endLine |-> i - 1]],
       lastUpdated |-> 1] : e \in [1..n -> RankEmbeddings] }

Orders(n) == {p \in [1..n -> 1..n] : \A i, j \in 1..n : p[i] = p[j] => i = j}

\* What scored.sort((a, b) => b.score - a.score) can leave: the stable
\* descending order when every score is a number; with a NaN score the
\* comparator is inconsistent and the order is the implementation's choice
SortOutcomes(scored) ==
    IF \E i \in 1..Len(scored) : scored[i].score.nan
    THEN {[i \in 1..Len(scored) |-> scored[p[i]]] : p \in Orders(Len(scored))}
    ELSE {SortScored(scored, 1, <<>>)}

\* The results searchIndex can return
searchIndexOutcomes(index, queryEmbedding, k) ==
    LET scored == [i \in 1..Len(index.chunks) |->
                      [chunk |-> index.chunks[i],
                       score |-> cosineSimilarity(queryEmbedding, index.chunks[i].embedding)]]
    IN IF \E i \in 1..Len(scored) : scored[i].score.nan
       THEN {[i \in 1..Min(k, Len(sorted)) |-> sorted[i].chunk] : sorted \in SortOutcomes(scored)}
       ELSE {searchIndex(index, queryEmbedding, k)}

\* The application of searchIndex a behavior follows
ApplySearchIndex ==
    /\ call = NoCall
    /\ \E n \in 0..MaxRank, k \in 0..MaxRank + 1 :
           \E index \in RankIndexes(n), queryEmbedding \in RankQueries :
               \E out \in searchIndexOutcomes(index, queryEmbedding, k) :
                   /\ call' = [fn |-> "searchIndex", index |-> index,
                               queryEmbedding |-> queryEmbedding, topK |-> k, out |-> out]
                   /\ UNCHANGED <<plugVars, readVars, messages, isLoading, inputValue,
                                  apiKey, useSemanticSearch, contextNotes, snd, submit,
                                  last, userName, maxTokens, tokenDisplay, upd,
                                  discoverContainer, hubNote>>

\* The indexes of n chunks of up to three documents, old.md deleted since;
\* chunk i covers line i - 1 of its document
DiscoverIndexes(n) ==
    { [chunks |-> [i \in 1..n |-> [file |-> f[i], text |-> <<"abcd">>,
                                   embedding |-> e[i],
                                   startLine |-> i - 1, endLine |-> i - 1]],
       lastUpdated |-> 1] :
      f \in [1..n -> Files \cup {"old.md"}], e \in [1..n -> RankEmbeddings] }

\* The lists the grouping, averaging and sorting of findSimilarNotes can
\* store: one, unless a NaN score leaves an order to the implementation
findSimilarOutcomes(index, file, queryEmbedding, threshold) ==
    LET keys == FileKeys(index.chunks, file, 1, <<>>)
        Matching(path) ==
            LET own == SelectSeq(index.chunks, LAMBDA c : c.file = path)
            IN [i \in 1..Len(own) |->
                   [text |-> own[i].text, startLine |-> own[i].startLine,
                    endLine |-> own[i].endLine,
                    score |-> cosineSimilarity(queryEmbedding, own[i].embedding)]]
        Entries(path) ==
            LET chunks == Matching(path)
                avgScore == ScoreDiv(ScoreSum(chunks, 1), Len(chunks))
            IN { [file |-> path, score |-> avgScore,
                  selected |-> ScoreGE(avgScore, threshold),
                  matchingChunks |-> SubSeq(sorted, 1, Min(5, Len(sorted)))] :
                 sorted \in SortOutcomes(chunks) }
        Mapped == { es \in [1..Len(keys) -> UNION {Entries(keys[k]) : k \in 1..Len(keys)}] :
                        \A k \in 1..Len(keys) : es[k] \in Entries(keys[k]) }
    IN IF \A i \in 1..Len(index.chunks) :
              index.chunks[i].file = file
              \/ ~cosineSimilarity(queryEmbedding, index.chunks[i].embedding).nan
       THEN {FindSimilar(index, file, queryEmbedding, threshold)}
       ELSE UNION {SortOutcomes(es) : es \in Mapped}

\* The application a behavior follows of the computation that findSimilarNotes
\* makes once it has the embedding of the reference document a.md
ApplyFindSimilar ==
    /\ call = NoCall
    /\ \E n \in 0..MaxRank :
           \E index \in DiscoverIndexes(n), queryEmbedding \in RankQueries :
               \E out \in findSimilarOutcomes(index, "a.md", queryEmbedding, discoverThreshold) :
                   /\ call' = [fn |-> "findSimilarNotes", index |-> index, file |-> "a.md",
                               queryEmbedding |-> queryEmbedding, out |-> out]
                   /\ UNCHANGED <<plugVars, readVars, messages, isLoading, inputValue,
                                  apiKey, useSemanticSearch, contextNotes, snd, submit,
                                  last, userName, maxTokens, tokenDisplay, upd,
                                  discoverContainer, hubNote>>

RankNext ==
    \/ ApplySearchIndex
    \/ ApplyFindSimilar

\* searchIndex and the ranking of findSimilarNotes over every small index
SpecRank == Init /\ [][RankNext]_vars

----------------------------------------------------------------------------
(* chunkText, applied to texts, chunk sizes and overlaps of any content *)

MaxLines == 4

MaxChunkSize == 3

MaxOverlap == 3

\* Lines of 0, 1, 2 and 3 estimated tokens
TextLines == {"", "ab", "abcde", "abcdefghi"}

\* What text.split('\n') gives: one line or more; the empty text is <<"">>
Texts == UNION {[1..n -> TextLines] : n \in 1..MaxLines}

\* The application of chunkText a behavior follows
ApplyChunkText ==
    /\ call = NoCall
    /\ \E text \in Texts, size \in 1..MaxChunkSize, overlap \in 0..MaxOverlap :
           call' = [fn |-> "chunkText", text |-> text, chunkSize |-> size,
                    overlap |-> overlap, out |-> chunkText(text, size, overlap)]
    /\ UNCHANGED <<plugVars, readVars, messages, isLoading, inputValue, apiKey,
                   useSemanticSearch, contextNotes, snd, submit, last, userName,
                   maxTokens, tokenDisplay, upd, discoverContainer, hubNote>>

ChunkNext ==
    \/ ApplyChunkText

\* chunkText over every small text, chunk size and overlap
SpecChunk == Init /\ [][ChunkNext]_vars

----------------------------------------------------------------------------
(* cosineSimilarity in double arithmetic, applied to vectors of any content *)

\* Vectors of the dimensions 0 to 3: zero vectors, vectors whose norm is a
\* whole number, and vectors whose norm is a whole number times sqrt(2)
CosineVectors ==
    {<<>>, <<0>>, <<3>>, <<0, 0>>, <<3, 4>>, <<4, 3>>, <<-3, 4>>, <<0, 5>>, <<6, 8>>,
     <<1, 1>>, <<1, -1>>, <<2, 2>>, <<0, 0, 0>>, <<1, 2, 2>>, <<3, 3, 0>>}

IsSquare(n) == \E r \in 0..n : r * r = n

\* normA and normB of the vectors
SquaredNorms == {DotProduct(a, a, 1) : a \in CosineVectors}

\* What Math.sqrt can do to the norms: exact on a perfect square, and on any
\* other number one rounding below (-1) or above (1) the irrational root
SqrtRoundings ==
    {e \in [SquaredNorms -> -1..1] : \A n \in SquaredNorms : (e[n] = 0) <=> IsSquare(n)}

cosineRoundedByFirst(a, b, e, m) ==
    IF Len(a) # Len(b)
    THEN [nan |-> FALSE, num |-> 0, den |-> 1, off |-> 0]
    ELSE LET dotProduct == DotProduct(a, b, 1)
             normA == DotProduct(a, a, 1)
             normB == DotProduct(b, b, 1)
         IN IF normA = 0 \/ normB = 0
            THEN [nan |-> TRUE, num |-> 0, den |-> 1, off |-> 0]
            ELSE LET exact == Quotient(dotProduct, Sqrt(normA * normB))
                     denOff == IF IsSquare(normA) /\ IsSquare(normB) THEN 0
                               ELSE e[normA] + e[normA] + m
                 IN [nan |-> FALSE, num |-> exact.num, den |-> exact.den,
                     off |-> IF dotProduct > 0 THEN -denOff
                             ELSE IF dotProduct < 0 THEN denOff ELSE 0]

\* cosineSimilarity(a, b) as doubles compute it, for vectors whose exact
\* cosine is a quotient num / den: that quotient and, in off, how many
\* roundings the result lies above or below it.  e is the rounding of
\* Math.sqrt, m the rounding of the product of the two roots; sums and
\* products of the small whole numbers are exact, 0 / 0 is NaN.
cosineRounded(a, b, e, m) ==
    IF Len(a) # Len(b)
    THEN [nan |-> FALSE, num |-> 0, den |-> 1, off |-> 0]
    ELSE LET dotProduct == DotProduct(a, b, 1)
             normA == DotProduct(a, a, 1)
             normB == DotProduct(b, b, 1)
         IN IF normA = 0 \/ normB = 0
            THEN [nan |-> TRUE, num |-> 0, den |-> 1, off |-> 0]
            ELSE LET exact == Quotient(dotProduct, Sqrt(normA * normB))
                     denOff == IF IsSquare(normA) /\ IsSquare(normB) THEN 0
                               ELSE e[normA] + e[normB] + m
                 IN [nan |-> FALSE, num |-> exact.num, den |-> exact.den,
                     off |-> IF dotProduct > 0 THEN -denOff
                             ELSE IF dotProduct < 0 THEN denOff ELSE 0]

\* The application of cosineSimilarity a behavior follows, in both orders of
\* its arguments; the vectors are of different lengths or have a cosine that
\* is a quotient of whole numbers
ApplyCosineSimilarity ==
    /\ call = NoCall
    /\ \E a \in CosineVectors, b \in CosineVectors, e \in SqrtRoundings, m \in -1..1 :
           /\ Len(a) # Len(b) \/ IsSquare(DotProduct(a, a, 1) * DotProduct(b, b, 1))
           /\ call' = [fn |-> "cosineSimilarity", a |-> a, b |-> b,
                       ab |-> cosineRounded(a, b, e, m), ba |-> cosineRounded(b, a, e, m)]
    /\ UNCHANGED <<plugVars, readVars, messages, isLoading, inputValue, apiKey,
                   useSemanticSearch, contextNotes, snd, submit, last, userName,
                   maxTokens, tokenDisplay, upd, discoverContainer, hubNote>>

CosineNext ==
    \/ ApplyCosineSimilarity

\* cosineSimilarity over every pair of the vectors
SpecCosine == Init /\ [][CosineNext]_vars

----------------------------------------------------------------------------
(* chunkText, one iteration at a time *)

\* chunkText is entered: its locals before the first iteration of the loop
BeginChunkText ==
    /\ call = NoCall
    /\ \E text \in Texts, size \in 1..MaxChunkSize, overlap \in 0..MaxOverlap :
           call' = [fn |-> "chunkLoop", text |-> text, chunkSize |-> size,
                    overlap |-> overlap, i |-> 0, chunks |-> <<>>, currentChunk |-> <<>>,
                    currentSize |-> 0, startLine |-> 0, done |-> FALSE]
    /\ UNCHANGED <<plugVars, readVars, messages, isLoading, inputValue, apiKey,
                   useSemanticSearch, contextNotes, snd, submit, last, userName,
                   maxTokens, tokenDisplay, upd, discoverContainer, hubNote>>

IterationStarves(c) ==
    LET line == c.text[c.i + 1]
        lineTokens == estimateTokens(line)
    IN IF c.currentSize + lineTokens > c.chunkSize /\ Len(c.currentChunk) > 0
       THEN LET ov == OverlapLoop(c.currentChunk, c.overlap, Len(c.currentChunk), <<>>, 0)
            IN [c EXCEPT !.chunks = Append(@, [text |-> c.currentChunk,
                                               startLine |-> c.startLine,
                                               endLine |-> c.i - 1]),
                         !.currentChunk = ov.lines,
                         !.currentSize = ov.size,
                         !.startLine = c.i - Len(ov.lines)]
       ELSE [c EXCEPT !.i = @ + 1,
                      !.currentChunk = Append(@, line),
                      !.currentSize = @ + lineTokens]

\* The locals after the body of the for loop and its i++ have run on them
Iteration(c) ==
    LET line == c.text[c.i + 1]
        lineTokens == estimateTokens(line)
    IN IF c.currentSize + lineTokens > c.chunkSize /\ Len(c.currentChunk) > 0
       THEN LET ov == OverlapLoop(c.currentChunk, c.overlap, Len(c.currentChunk), <<>>, 0)
            IN [c EXCEPT !.i = @ + 1,
                         !.chunks = Append(@, [text |-> c.currentChunk,
                                               startLine |-> c.startLine,
                                               endLine |-> c.i - 1]),
                         !.currentChunk = Append(ov.lines, line),
                         !.currentSize = ov.size + lineTokens,
                         !.startLine = c.i - Len(ov.lines)]
       ELSE [c EXCEPT !.i = @ + 1,
                      !.currentChunk = Append(@, line),
                      !.currentSize = @ + lineTokens]

\* One iteration of the loop over the lines
IterateChunkText ==
    /\ call.fn = "chunkLoop"
    /\ ~call.done
    /\ call.i < Len(call.text)
    /\ call' = Iteration(call)
    /\ UNCHANGED <<plugVars, readVars, messages, isLoading, inputValue, apiKey,
                   useSemanticSearch, contextNotes, snd, submit, last, userName,
                   maxTokens, tokenDisplay, upd, discoverContainer, hubNote>>

\* The loop is over: the remaining buffer is flushed and chunks returned
ReturnChunkText ==
    /\ call.fn = "chunkLoop"
    /\ ~call.done
    /\ call.i >= Len(call.text)
    /\ call' = [call EXCEPT !.done = TRUE,
                            !.chunks = IF Len(call.currentChunk) > 0
                                       THEN Append(@, [text |-> call.currentChunk,
                                                       startLine |-> call.startLine,
                                                       endLine |-> Len(call.text) - 1])
                                       ELSE @]
    /\ UNCHANGED <<plugVars, readVars, messages, isLoading, inputValue, apiKey,
                   useSemanticSearch, contextNotes, snd, submit, last, userName,
                   maxTokens, tokenDisplay, upd, discoverContainer, hubNote>>

ChunkLoopNext ==
    \/ BeginChunkText
    \/ IterateChunkText
    \/ ReturnChunkText

\* chunkText run one iteration at a time
SpecChunkLoop == Init /\ [][ChunkLoopNext]_vars

----------------------------------------------------------------------------
(* Properties of the rebuild *)

\* Invocation r of rebuildIndex is past the guard and has not returned
Active(r) == rb[r].pc # "idle"

\* A step in which an invocation is turned away at the guard
RejectStep == notice # "already" /\ notice' = "already"

\* The step in which invocation r swaps its list in
SwapStep(r) == rb[r].pc # "saving" /\ rb'[r].pc = "saving"

\* Every chunk of every document of the list, in document then chunk order
RECURSIVE ExpectedChunks(_, _)
ExpectedChunks(listed, i) ==
    IF i > Len(listed) THEN <<>>
    ELSE LET cs == chunkText(Content(listed[i]), chunkSize, chunkOverlap)
         IN [k \in 1..Len(cs) |-> [file |-> listed[i], chunk |-> cs[k]]]
            \o ExpectedChunks(listed, i + 1)

\* The embedding requests of a log, without their outcomes
Attempts(lg) == [i \in 1..Len(lg) |-> [file |-> lg[i].file, chunk |-> lg[i].chunk]]

\* The chunks whose embedding request succeeded, in the order of the requests
RECURSIVE OkChunks(_, _, _)
OkChunks(lg, i, g) ==
    IF i > Len(lg) THEN <<>>
    ELSE (IF lg[i].ok
          THEN <<[file |-> lg[i].file, text |-> lg[i].chunk.text,
                  embedding |-> lg[i].embedding,
                  startLine |-> lg[i].chunk.startLine,
                  endLine |-> lg[i].chunk.endLine, gen |-> g]>>
          ELSE <<>>) \o OkChunks(lg, i + 1, g)

\* C1: at most one invocation of rebuildIndex is past the guard at any time, and
\* only with the flag set; an invocation made while another is in flight is
\* turned away at once: it starts no read, no embedding request and no write,
\* leaves the flag set and the index, the store and the running rebuild as they
\* are; and the index a rebuild swaps in is made of exactly the chunks its own
\* embedding requests returned, none twice and none lost.
C1_RebuildMutualExclusion ==
    /\ [](/\ Cardinality({r \in Invocations : Active(r)}) <= 1
          /\ \A r \in Invocations : Active(r) => isIndexing)
    /\ [][/\ RejectStep =>
               /\ \E q \in Invocations : Active(q)
               /\ isIndexing /\ isIndexing'
               /\ UNCHANGED <<rb, vaultIndex, store, now, whole, vault>>
          /\ \A r \in Invocations :
               /\ (~Active(r) /\ Active(r)') =>
                     \A q \in Invocations : ~Active(q)
               /\ SwapStep(r) =>
                     /\ Attempts(rb'[r].log) = ExpectedChunks(rb'[r].listed, 1)
                     /\ vaultIndex'.chunks = OkChunks(rb'[r].log, 1, now')]_vars

\* A second invocation was turned away while a rebuild was in flight, and that
\* rebuild has swapped in the three chunks of the two documents
C1_Witness ==
    /\ notice = "already"
    /\ \E r \in Invocations : rb[r].pc = "saving" /\ Len(rb[r].log) = 3
    /\ Len(vaultIndex.chunks) = 3

\* C8: when embedding requests of a rebuild fail, the rebuild still requests
\* every remaining chunk of every document, swaps in exactly the chunks whose
\* request succeeded, in document then chunk order, hands that index to the
\* write, and ends with the completion notice: a failed embedding request never
\* ends the rebuild.
C8_EmbedFailureSkips ==
    /\ [](\A r \in Invocations : rb[r].pc = "saving" =>
            /\ Attempts(rb[r].log) = ExpectedChunks(rb[r].listed, 1)
            /\ vaultIndex.chunks = OkChunks(rb[r].log, 1, vaultIndex.lastUpdated)
            /\ vaultIndex.lastUpdated = now
            /\ rb[r].pending = Serialize(vaultIndex))
    /\ [][\A r \in Invocations :
            /\ rb[r].pc = "embedding" =>
                  /\ rb'[r].pc \in {"embedding", "reading", "saving"}
                  /\ rb'[r] # rb[r] => notice' = notice
            /\ (rb[r].pc = "saving" /\ rb'[r].pc # "saving") =>
                  /\ notice' = "complete"
                  /\ store' \in {store, rb[r].pending}]_vars

\* A rebuild whose first embedding request failed and whose later requests, of
\* the same and of another document, succeeded, has swapped in the two chunks
C8_Witness ==
    \E r \in Invocations :
        /\ rb[r].pc = "saving"
        /\ Len(rb[r].log) = 3
        /\ ~rb[r].log[1].ok /\ rb[r].log[2].ok /\ rb[r].log[3].ok
        /\ rb[r].log[3].file # rb[r].log[1].file
        /\ Len(vaultIndex.chunks) = 2

\* C9: the flag is set only while an invocation of rebuildIndex is past the
\* guard: every step in which an accepted rebuild ends (completion, failed
\* write, failed read) leaves the flag false, and an invocation is turned away
\* only while another is in flight, so a request made after the end is accepted.
C9_FlagReleased ==
    /\ []((\A r \in Invocations : ~Active(r)) => ~isIndexing)
    /\ [][/\ \A r \in Invocations : (Active(r) /\ ~Active(r)') => ~isIndexing'
          /\ RejectStep => \E q \in Invocations : Active(q)]_vars

\* After a rebuild that completed, a second one was accepted and failed on the
\* read of a deleted document: the flag is false again
C9_Witness ==
    /\ notice = "failed"
    /\ now = 2
    /\ vaultIndex.lastUpdated = 2
    /\ vault # Files
    /\ \A r \in Invocations : ~Active(r)
    /\ ~isIndexing

\* C10: the index holds only the chunks of its latest generation (the load at
\* startup until a rebuild swaps, then the latest swap), and no two of its
\* chunks are of the same position of the same document.
C10_RebuildReplaces ==
    /\ \A i \in 1..Len(vaultIndex.chunks) :
          vaultIndex.chunks[i].gen = (IF now = 1 THEN 0 ELSE now)
    /\ now > 1 => vaultIndex.lastUpdated = now
    /\ \A i, j \in 1..Len(vaultIndex.chunks) :
          (/\ vaultIndex.chunks[i].file = vaultIndex.chunks[j].file
           /\ vaultIndex.chunks[i].startLine = vaultIndex.chunks[j].startLine
           /\ vaultIndex.chunks[i].endLine = vaultIndex.chunks[j].endLine) => i = j

\* The second rebuild after a load has swapped in the three chunks
C10_Witness ==
    /\ now = 3
    /\ Len(vaultIndex.chunks) = 3
    /\ store.exists /\ store.lastUpdated = 2
    /\ \E r \in Invocations : rb[r].pc = "saving"

----------------------------------------------------------------------------
(* Properties of the searches *)

\* C2: whatever the interleaving of a rebuild with the chat-time searches and
\* the discovery runs, every scan reads one whole index value: the index as it
\* was loaded or last swapped in, never a list a rebuild is still assembling.
C2_RebuildAtomicity ==
    /\ sr.outcome = "ok" => ~sr.torn
    /\ disc.outcome = "ok" => ~disc.torn

\* A chat-time search and a discovery run both scanned the index while a
\* rebuild was in flight, and found chunks
C2_Witness ==
    /\ sr.outcome = "ok" /\ sr.during /\ semanticResults # <<>>
    /\ disc.outcome = "ok" /\ disc.during /\ similarNotes # <<>>
    /\ rb[1].pc = "embedding" /\ rb[1].chunks # <<>>

----------------------------------------------------------------------------
(* Properties of the chat orchestrator *)

\* The ways the completion call fails
CompletionFailures == {"status", "transport", "nobody", "stream"}

\* The step in which send s ends with the given outcomes
EndStep(s, outcomes) ==
    /\ last.outcome = "none"
    /\ last'.outcome \in outcomes
    /\ snd' = Ended(s)

\* The delta contents of the well-formed events of a body, in the order sent
SentDeltas(stream) == ProcessLines(split(stream, "\n", 1, <<>>, <<>>), 1, <<>>)

C4_SendGuard ==
    /\ [](Len(snd) <= 1 /\ (snd # <<>> => isLoading))
    /\ [][/\ (submit # "rejected" /\ submit' = "rejected") =>
               /\ trim(inputValue) = <<>> \/ isLoading \/ ~apiKey
               /\ UNCHANGED <<messages, isLoading, inputValue, contextNotes,
                              semanticResults, snd, sr, last>>
          /\ Len(snd') > Len(snd) =>
               /\ trim(inputValue) # <<>> /\ ~isLoading /\ apiKey
               /\ snd = <<>>
               /\ submit' = "accepted"]_vars

\* A call made while the accepted send was streaming was turned away, and a
\* call with a blank input or without an API key is turned away when idle
C4_Witness ==
    /\ submit = "rejected"
    /\ Len(snd) = 1 /\ snd[1].pc = "stream" /\ snd[1].fullContent # <<>>
    /\ messages = Append(snd[1].before, snd[1].user)

\* C5 as a property of states: with no call of sendMessage left in flight, the
\* loading flag is clear.
C5_IdleWhenNoSend == snd = <<>> => ~isLoading

\* C6: when the stream of an accepted send completes, the history becomes the
\* history before the send, the user message, and one assistant message whose
\* content is the accumulated buffer.
C6_CommitOnCompletion ==
    [][\A s \in 1..Len(snd) :
          EndStep(s, {"committed"}) =>
             messages' = snd[s].before \o
                         << snd[s].user,
                            [role |-> "assistant", content |-> snd[s].fullContent] >>]_vars

\* C7: the text callLLMStreaming returns, which sendMessage commits, is the
\* concatenation of the delta contents of the well-formed events of the body,
\* however the body is divided into reads.
C7_StreamingAccumulation ==
    [][\A s \in 1..Len(snd) :
          EndStep(s, {"committed"}) =>
             messages'[Len(messages')].content = SentDeltas(snd[s].stream)]_vars

----------------------------------------------------------------------------
(* Properties of the index across a rebuild, a load and a failed write *)

\* Invocation r has been accepted and has not swapped yet
BeforeSwap(r) == rb[r].pc \in {"reading", "embedding"}

\* C11: from the step that accepts a rebuild until its swap, no step changes
\* the in-memory index or the persisted store; a rebuild that ends with an
\* error before its swap therefore leaves both as they were when it started.
C11_PreviousIndexUntilSwap ==
    [][\A r \in Invocations :
          /\ (BeforeSwap(r) /\ ~SwapStep(r)) =>
                vaultIndex' = vaultIndex /\ store' = store
          /\ (~Active(r) /\ BeforeSwap(r)') =>
                vaultIndex' = vaultIndex /\ store' = store
          /\ (Active(r) /\ ~Active(r)' /\ notice' = "failed") =>
                BeforeSwap(r) /\ vaultIndex' = vaultIndex /\ store' = store]_vars

\* A rebuild over the loaded index embedded a chunk and then failed on the read
\* of a deleted document: the loaded index and the stored file are untouched
C11_Witness ==
    /\ notice = "failed"
    /\ now = 1
    /\ store = StoredSample
    /\ vaultIndex = [chunks |-> LoadChunks(StoredSample.chunks, 1), lastUpdated |-> 1]
    /\ Len(vaultIndex.chunks) = 1
    /\ "b.md" \notin vault

\* C12: a search that waited for its query embedding computes its result
\* against the index that was current when it started, even if a rebuild swapped
\* the index meanwhile.
C12_SnapshotReads ==
    [][/\ (sr.pc = "embedding" /\ sr'.outcome = "ok") =>
             \E queryEmbedding \in QueryEmbeddings :
                 semanticResults' = searchIndex(sr.seen, queryEmbedding, topK)
       /\ (disc.pc = "embedding" /\ disc'.outcome = "ok") =>
             \E queryEmbedding \in QueryEmbeddings :
                 similarNotes' = FilterSimilar(FindSimilar(disc.seen, disc.file,
                                                           queryEmbedding, discoverThreshold),
                                               discoverThreshold)]_vars

\* C13: when the write of the index file fails after the swap, the rebuild still
\* ends with its completion notice and a cleared flag, the store keeps what it
\* held, the index in memory stays the one the rebuild built, and every search
\* that completes scans the index in memory, never the store.
C13_PersistFailureNonFatal ==
    [][/\ \A r \in Invocations :
             (rb[r].pc = "saving" /\ rb'[r].pc # "saving" /\ store' # rb[r].pending) =>
                /\ notice' = "complete"
                /\ ~isIndexing'
                /\ rb'[r] = IdleRebuild
                /\ store' = store
                /\ vaultIndex' = vaultIndex
                /\ Serialize(vaultIndex') = rb[r].pending
       /\ (sr.pc = "embedding" /\ sr'.outcome = "ok") =>
             \E queryEmbedding \in QueryEmbeddings :
                 semanticResults' = searchIndex(vaultIndex', queryEmbedding, topK)]_vars

\* Nothing was ever written, the rebuild has returned, and a search that
\* completed after it found chunks of the rebuilt index
C13_Witness ==
    /\ store = NoStore
    /\ notice = "complete"
    /\ ~isIndexing
    /\ Len(vaultIndex.chunks) > 0
    /\ sr.outcome = "ok"
    /\ ~sr.during
    /\ semanticResults # <<>>
    /\ \A i \in 1..Len(semanticResults) : semanticResults[i].gen = vaultIndex.lastUpdated

\* C14: loadIndex over a readable store yields exactly the stored records whose
\* path names an existing file at load time, in stored order, with text,
\* embedding and line range as stored and the stored timestamp; the records
\* of missing files are left out and startup goes on.
C14_LoadPruning ==
    [][(~booted /\ booted' /\ store.exists /\ store.valid) =>
          /\ Serialize(vaultIndex').chunks =
                SelectSeq(store.chunks, LAMBDA item : item.filePath \in vault)
          /\ vaultIndex'.lastUpdated = store.lastUpdated
          /\ isIndexing' = isIndexing /\ notice' = "none" /\ store' = store]_vars

\* Loaded from the sample: the record of a.md kept, the record of old.md gone
C14_Witness ==
    /\ booted
    /\ store = StoredSample
    /\ now = 1
    /\ Len(vaultIndex.chunks) = 1
    /\ vaultIndex.chunks[1].file = "a.md"
    /\ vaultIndex.chunks[1].embedding = <<3, 4>>
    /\ vaultIndex.lastUpdated = 1
    /\ notice = "none"
    /\ ~isIndexing

\* C15: loadIndex raises nothing: with no store, or a store that cannot be read
\* or parsed, the index stays the empty index of construction and startup
\* completes.
C15_LoadNeverThrows ==
    [][(~booted /\ booted' /\ (~store.exists \/ ~store.valid)) =>
          /\ vaultIndex' = EmptyIndex
          /\ booted'
          /\ notice' = "none" /\ store' = store /\ ~isIndexing']_vars

\* Startup went past an unreadable store and a rebuild was then accepted
C15_Witness ==
    /\ booted
    /\ store = CorruptStore
    /\ vaultIndex = EmptyIndex
    /\ isIndexing
    /\ \E r \in Invocations : rb[r].pc = "reading"

\* The request of send s is handed to fetch in this step
Issued(s) ==
    /\ s \in 1..Len(snd')
    /\ snd'[s].pc = "fetch"
    /\ (s > Len(snd) \/ snd[s].pc # "fetch")

\* The auto-discovered chunks of a system message
Chunks(system) == SelectSeq(system, LAMBDA part : part.kind = "chunk")

\* C16: when the embedding call of a send's semantic search fails, the history
\* keeps the user message, the send stays in flight and goes on to its context
\* and its completion request, and that request carries no auto-discovered
\* chunk.
C16_SearchFailureSwallowed ==
    [][/\ (sr.pc = "embedding" /\ sr'.outcome = "error") =>
             /\ messages' = messages
             /\ isLoading'
             /\ Len(snd') = Len(snd)
             /\ \A s \in 1..Len(snd) :
                   snd[s].pc = "search" => snd'[s].pc \in {"reading", "fetch"}
       /\ \A s \in 1..Len(snd') :
             (Issued(s) /\ snd'[s].search = "error") =>
                 Chunks(snd'[s].request.system) = <<>>]_vars

\* C17: a send accepted while the index is empty and semantic search is on
\* starts no embedding request, raises nothing, goes on to its context and its
\* completion request like any other send, and its request carries no
\* auto-discovered chunk.
C17_EmptyIndexSend ==
    [][/\ (Len(snd') > Len(snd) /\ useSemanticSearch /\ Len(vaultIndex.chunks) = 0) =>
             /\ sr' = sr
             /\ snd'[Len(snd')].pc \in {"reading", "fetch"}
             /\ isLoading'
       /\ \A s \in 1..Len(snd') :
             (Issued(s) /\ snd'[s].search = "empty") =>
                 Chunks(snd'[s].request.system) = <<>>]_vars

\* The system message the prompt rule asks for: the base instruction, the
\* identity annotation if a name is set, the context documents in list order,
\* the auto-discovered chunks with their sources
ExpectedSystem(name, notes, results) ==
    <<Part("base", "", <<SystemPrompt>>)>>
    \o (IF name = "" THEN <<>> ELSE <<Part("identity", "", <<name>>)>>)
    \o (IF notes = <<>> /\ results = <<>> THEN <<>> ELSE <<Part("notesHeader", "", <<>>)>>)
    \o [k \in 1..Len(notes) |-> Part("document", notes[k], Content(notes[k]))]
    \o (IF results = <<>> THEN <<>> ELSE <<Part("chunksHeader", "", <<>>)>>)
    \o [k \in 1..Len(results) |-> Part("chunk", results[k].file, results[k].text)]

\* C18: every completion request has one system message made of, in this
\* order, the base instruction, the identity annotation if a name is set, the
\* full content of each context document in list order, and the
\* auto-discovered chunks labelled with their source; the history follows it
\* whole and in order, and ends with the user message of this send.
C18_PromptAssemblyOrder ==
    [][\A s \in 1..Len(snd') :
          Issued(s) =>
             /\ snd'[s].request.system =
                   ExpectedSystem(userName', contextNotes', semanticResults')
             /\ snd'[s].request.history = Append(snd'[s].before, snd'[s].user)]_vars

\* An invocation of updateTokenDisplay completes in this step
UpdateCompletes == tokenDisplay'.done # tokenDisplay.done

\* The display is at the level that tokens of max ask for, and at one level at most
AtLevel(classes, tokens, max) ==
    /\ "danger" \in classes <=> 100 * tokens >= 95 * max
    /\ "warning" \in classes <=> (80 * max <= 100 * tokens /\ 100 * tokens < 95 * max)
    /\ Cardinality(classes) <= 1

\* The text a send would carry in this state: system prompt, identity
\* annotation, context documents, semantic chunks, history
RECURSIVE DocumentsText(_)
DocumentsText(notes) ==
    IF notes = <<>> THEN <<>> ELSE DocumentText(Head(notes)) \o DocumentsText(Tail(notes))

SentText(name, notes, results, history) ==
    SystemText(name) \o DocumentsText(notes) \o ChunksText(results) \o MessagesText(history)

\* C20: when an update of the token counter completes, with T = ceil(chars/4)
\* of the text that would be sent and M the configured maximum, the counter is
\* at the danger level iff 100*T >= 95*M, at the warning level iff
\* 80*M <= 100*T < 95*M, at no level otherwise, and never at both.
C20_TokenLevels ==
    [][UpdateCompletes =>
          AtLevel(tokenDisplay'.classes,
                  CeilDiv(Length(SentText(userName', contextNotes', semanticResults',
                                          messages')), 4),
                  maxTokens')]_vars

\* C20, amended: an update called on an empty chat (no message, no context
\* note, no semantic result) leaves the counter at no level whatever M is; any
\* other update that completes puts the counter at the level of T = ceil(chars/4)
\* of the text it gathered (the system prompt and the name as read at the call,
\* the documents of the list it iterated, the semantic chunks and the history
\* as they are when it finishes) against M: danger iff 100*T >= 95*M, warning
\* iff 80*M <= 100*T < 95*M, never both.
C20_TokenLevelsOfGatheredText ==
    [][UpdateCompletes =>
          LET rest == ChunksText(semanticResults) \o MessagesText(messages)
              empty == messages = <<>> /\ contextNotes = <<>> /\ semanticResults = <<>>
          IN \/ /\ upd' = upd /\ empty
                /\ tokenDisplay'.classes = {} /\ tokenDisplay'.banner = "hidden"
             \/ /\ upd' = upd /\ ~empty /\ contextNotes = <<>>
                /\ AtLevel(tokenDisplay'.classes,
                           CeilDiv(Length(SystemText(userName) \o rest), 4), maxTokens)
             \/ \E u \in 1..Len(upd) :
                   /\ upd' = Without(u)
                   /\ upd[u].i = Len(upd[u].notes)
                   /\ AtLevel(tokenDisplay'.classes,
                              CeilDiv(Length(upd[u].totalText
                                             \o DocumentText(upd[u].notes[upd[u].i])
                                             \o rest), 4),
                              maxTokens)]_vars

\* An update has completed on a chat whose text is exactly 80% of the maximum:
\* the counter is at the warning level
C20_Witness ==
    /\ tokenDisplay.done = 1
    /\ tokenDisplay.classes = {"warning"}
    /\ tokenDisplay.banner = "yellow"
    /\ upd = <<>>
    /\ maxTokens = DefaultMaxTokens
    /\ userName = "Ann"
    /\ contextNotes = <<"a.md">>
    /\ Len(messages) = 1
    /\ 100 * CeilDiv(Length(SentText(userName, contextNotes, semanticResults, messages)), 4)
          = 80 * maxTokens

\* The documents of a system message
Documents(system) == SelectSeq(system, LAMBDA part : part.kind = "document")

\* The estimated tokens of the text a send carries in this state
PromptTokens ==
    CeilDiv(Length(SentText(userName, contextNotes, semanticResults, messages)), 4)

\* C19: the token budget never refuses or shortens a send: a call of
\* sendMessage is refused only for a blank input, a send in flight or a missing
\* API key, whatever the ratio of the estimated tokens to the maximum; and
\* every request carries each context document it read in full, every
\* semantic result of the view in full, and the whole history.
C19_BudgetAdvisory ==
    [][/\ (submit # "rejected" /\ submit' = "rejected") =>
             trim(inputValue) = <<>> \/ isLoading \/ ~apiKey
       /\ \A s \in 1..Len(snd') :
             Issued(s) =>
                LET read == IF s <= Len(snd) /\ snd[s].pc = "reading"
                            THEN snd[s].notes ELSE <<>>
                IN /\ Documents(snd'[s].request.system) =
                         [k \in 1..Len(read) |->
                             Part("document", read[k], Content(read[k]))]
                   /\ Chunks(snd'[s].request.system) =
                         [k \in 1..Len(semanticResults') |->
                             Part("chunk", semanticResults'[k].file, semanticResults'[k].text)]
                   /\ snd'[s].request.history = messages']_vars

\* A request is in flight whose estimated tokens are at least the maximum: it
\* carries both context documents, the semantic result and the history
C19_Witness ==
    /\ Len(snd) = 1
    /\ snd[1].pc = "fetch"
    /\ PromptTokens >= maxTokens
    /\ Len(contextNotes) = 2
    /\ Len(semanticResults) > 0
    /\ Len(Documents(snd[1].request.system)) = 2
    /\ Len(Chunks(snd[1].request.system)) = Len(semanticResults)
    /\ snd[1].request.history = messages
    /\ Len(messages) = 3

\* Sequence p is the beginning of sequence q
IsPrefix(p, q) == Len(p) <= Len(q) /\ SubSeq(q, 1, Len(p)) = p

\* C21: nothing is retried.  The embedding requests of a rebuild are at every
\* moment the beginning of the list of its documents' chunks, each chunk once
\* and in order, whether its request failed or not, and an answer to a request
\* adds one entry for one chunk.  A send starts its semantic search at most
\* once, when it is accepted, and hands one request to fetch at most; a send that
\* ended starts nothing more, and a new send exists only through an accepted
\* call of sendMessage on a non-blank input.
C21_NoAutomaticRetry ==
    /\ [](\A r \in Invocations :
            Active(r) => IsPrefix(Attempts(rb[r].log), ExpectedChunks(rb[r].listed, 1)))
    /\ [][/\ \A r \in Invocations :
               (rb[r].pc = "embedding" /\ rb'[r] # rb[r] /\ Active(r)') =>
                  /\ Len(rb'[r].log) = Len(rb[r].log) + 1
                  /\ rb'[r].log[Len(rb'[r].log)].chunk = Head(rb[r].textChunks)
                  /\ (rb'[r].pc = "embedding" => rb'[r].textChunks = Tail(rb[r].textChunks))
          /\ (sr.pc # "embedding" /\ sr'.pc = "embedding") =>
                /\ Len(snd') = Len(snd) + 1
                /\ snd'[Len(snd')].pc = "search"
          /\ Len(snd') > Len(snd) =>
                /\ submit' = "accepted"
                /\ trim(inputValue) # <<>>
                /\ messages' = Append(messages, snd'[Len(snd')].user)
          /\ Len(snd') < Len(snd) =>
                /\ sr'.pc = sr.pc
                /\ \A s \in 1..Len(snd') : ~Issued(s)
          /\ Len(snd') = Len(snd) =>
                \A s \in 1..Len(snd) :
                   /\ snd[s].pc # "search" => snd'[s].pc # "search"
                   /\ snd[s].pc \in {"fetch", "errorText", "stream"} =>
                         /\ snd'[s].pc \in {"fetch", "errorText", "stream"}
                         /\ ~Issued(s)
                         /\ snd[s].pc # "fetch" => snd'[s].pc # "fetch"]_vars

\* A send whose search failed and whose completion request failed has ended
\* with nothing in flight, while a rebuild whose first embedding request failed
\* has asked for its three chunks once each
C21_Witness ==
    /\ snd = <<>>
    /\ last.outcome = "transport"
    /\ sr = [IdleSearch EXCEPT !.outcome = "error"]
    /\ rb[1].pc = "saving"
    /\ Len(rb[1].log) = 3
    /\ ~rb[1].log[1].ok
    /\ Len(vaultIndex.chunks) = 2

----------------------------------------------------------------------------
(* Properties of the ranking *)

\* The score searchIndex gives chunk i of the index of the last application
RankScore(i) == cosineSimilarity(call.queryEmbedding, call.index.chunks[i].embedding)

\* Chunk i is ranked before chunk j: a greater score, or the same score and an
\* earlier place in the index
RankedBefore(i, j) ==
    \/ ScoreGreater(RankScore(i), RankScore(j))
    \/ ScoreGE(RankScore(i), RankScore(j)) /\ ScoreGE(RankScore(j), RankScore(i)) /\ i < j

\* The result is the chunks at the places p[1], p[2], ... of the index, each
\* ranked before every chunk that comes after it or is left out
IsRanking(p) ==
    /\ \A m \in 1..Len(call.out) : call.out[m] = call.index.chunks[p[m]]
    /\ \A m \in 1..Len(call.out) : \A j \in 1..Len(call.index.chunks) :
           (\A l \in 1..m : p[l] # j) => RankedBefore(p[m], j)

\* C22: searchIndex returns exactly the first min(topK, |index|) chunks of the
\* index sorted by non-increasing cosine score, ties in index order; so never
\* more than topK chunks, and every chunk when topK >= |index|.
C22_SearchRanking ==
    call.fn = "searchIndex" =>
        /\ Len(call.out) = Min(call.topK, Len(call.index.chunks))
        /\ \E p \in Orders(Len(call.index.chunks)) : IsRanking(p)

\* The chunks of document path in the index of the last application, as
\* findSimilarNotes records them
OwnChunks(path) ==
    LET own == SelectSeq(call.index.chunks, LAMBDA c : c.file = path)
    IN [i \in 1..Len(own) |->
           [text |-> own[i].text, startLine |-> own[i].startLine, endLine |-> own[i].endLine,
            score |-> cosineSimilarity(call.queryEmbedding, own[i].embedding)]]

ScoreEq(x, y) == ScoreGE(x, y) /\ ScoreGE(y, x)

Range(seq) == {seq[i] : i \in 1..Len(seq)}

NonIncreasing(seq) == \A i \in 1..Len(seq) - 1 : ScoreGE(seq[i].score, seq[i + 1].score)

\* C23: the list of findSimilarNotes for reference document D has exactly one
\* entry per document other than D that owns an index chunk; an entry's score
\* is the mean of the scores of all its document's chunks, its matchingChunks
\* are its at most 5 highest-scoring chunks in non-increasing order, and the
\* entries are sorted by non-increasing mean score.
C23_DocumentDiscovery ==
    call.fn = "findSimilarNotes" =>
        LET owners == {c.file : c \in Range(call.index.chunks)} \ {call.file}
        IN /\ {e.file : e \in Range(call.out)} = owners
           /\ Len(call.out) = Cardinality(owners)
           /\ NonIncreasing(call.out)
           /\ \A e \in Range(call.out) :
                  LET own == OwnChunks(e.file)
                  IN /\ ScoreEq(e.score, ScoreDiv(ScoreSum(own, 1), Len(own)))
                     /\ Len(e.matchingChunks) = Min(5, Len(own))
                     /\ Cardinality(Range(e.matchingChunks)) = Len(e.matchingChunks)
                     /\ Range(e.matchingChunks) \subseteq Range(own)
                     /\ NonIncreasing(e.matchingChunks)
                     /\ \A c \in Range(own) \ Range(e.matchingChunks) :
                            \A m \in Range(e.matchingChunks) : ScoreGE(m.score, c.score)

----------------------------------------------------------------------------
(* Properties of the discover view *)

\* The stored list without the selection marks: members, scores, chunks, order
Unselected(notes) ==
    [i \in 1..Len(notes) |-> [file |-> notes[i].file, score |-> notes[i].score,
                              matchingChunks |-> notes[i].matchingChunks]]

FilesOf(entries) == [i \in 1..Len(entries) |-> entries[i].file]

\* The files of the stored entries at or above the threshold, in list order
AtOrAbove(notes, threshold) ==
    FilesOf(SelectSeq(notes, LAMBDA n : ScoreGE(n.score, threshold)))

\* The files of the stored entries marked selected, in list order
Selected(notes) == FilesOf(SelectSeq(notes, LAMBDA n : n.selected))

\* C24: moving the threshold slider issues no embedding request and leaves the
\* stored list's members, scores, matching chunks and order unchanged;
\* afterwards the shown and the selected entries are exactly those with
\* score >= the new threshold.
C24_ThresholdRefilter ==
    [][(\E value \in ThresholdValues : SlideThreshold(value)) =>
           /\ UNCHANGED <<plugVars, sr, disc>>
           /\ Unselected(similarNotes') = Unselected(similarNotes)
           /\ Selected(similarNotes') = AtOrAbove(similarNotes', discoverThreshold')
           /\ FilesOf(discoverContainer'.items) = AtOrAbove(similarNotes', discoverThreshold')]_vars

\* An entry with the mean score 0.65, hidden at the threshold 0.7 the view
\* starts with, is shown and selected at the threshold 0.6
C24_Witness ==
    /\ discoverThreshold = Quotient(60, 100)
    /\ disc.pc = "idle"
    /\ \E i \in 1..Len(similarNotes) :
           /\ similarNotes[i].score = Quotient(65, 100)
           /\ similarNotes[i].selected
           /\ \E k \in 1..Len(discoverContainer.items) :
                  discoverContainer.items[k].file = similarNotes[i].file

\* C25: the stored list has at most one entry per document path, whatever
\* discovery runs, drops, removals and clears came before; dropping a document
\* that is in the list leaves the list unchanged, and dropping a new one
\* appends an entry with score 1.0, selected, without matching chunks.
C25_ManualAdditions ==
    /\ [](\A i, j \in 1..Len(similarNotes) :
              similarNotes[i].file = similarNotes[j].file => i = j)
    /\ [][\A filePath \in DropPaths :
              DropNote(filePath) =>
                  similarNotes' =
                      IF filePath \in vault /\ filePath \notin Range(FilesOf(similarNotes))
                      THEN Append(similarNotes,
                                  [file |-> filePath, score |-> One, selected |-> TRUE,
                                   matchingChunks |-> <<>>])
                      ELSE similarNotes]_vars

\* The list holds a computed entry and, after it, a dropped one
C25_Witness ==
    /\ Len(similarNotes) = 2
    /\ similarNotes[1].matchingChunks # <<>>
    /\ similarNotes[2] = [file |-> "b.md", score |-> One, selected |-> TRUE,
                          matchingChunks |-> <<>>]
    /\ FilesOf(discoverContainer.items) = <<"b.md">>

\* C26: in every reachable state each stored entry has selected = (score >=
\* current threshold), and the documents a hub note lists are exactly the
\* entries the list showed when it was built, whether the threshold was last
\* changed through the slider or through the settings tab.
C26_SelectionTracksThreshold ==
    /\ Selected(similarNotes) = AtOrAbove(similarNotes, discoverThreshold)
    /\ \A h \in Range(hubNote) : FilesOf(h.notes) = FilesOf(h.shown)

----------------------------------------------------------------------------
(* Properties of chunkText *)

\* The 0-based line indexes of chunk k of the last application
LinesOf(k) == call.out[k].startLine .. call.out[k].endLine

\* The lines chunk k shares with the chunk before it: its overlap seed
SeedOf(k) == IF k = 1 THEN {} ELSE LinesOf(k) \cap LinesOf(k - 1)

\* C27: for every text, chunk size > 0 and overlap >= 0 the chunk sequence
\* starts at line 0, ends at the last line and has no gap, so every line lies
\* in at least one chunk and every line outside an overlap seed in exactly one.
C27_ChunkCoverage ==
    call.fn = "chunkText" =>
        LET n == Len(call.out)
            last_ == Len(call.text) - 1
        IN /\ n >= 1
           /\ call.out[1].startLine = 0
           /\ call.out[n].endLine = last_
           /\ \A k \in 1..n : call.out[k].startLine <= call.out[k].endLine
           /\ \A k \in 1..n - 1 : call.out[k + 1].startLine <= call.out[k].endLine + 1
           /\ \A l \in 0..last_ :
                  /\ \E k \in 1..n : l \in LinesOf(k)
                  /\ (\A k \in 1..n : l \notin SeedOf(k)) =>
                         Cardinality({k \in 1..n : l \in LinesOf(k)}) = 1

\* Three chunks of a text of MaxLines lines, each seeded from the one before,
\* and a line of the first chunk that is in no seed
C27_Witness ==
    /\ call.fn = "chunkText"
    /\ Len(call.text) = MaxLines
    /\ Len(call.out) = 3
    /\ SeedOf(2) # {}
    /\ SeedOf(3) # {}
    /\ LinesOf(1) \ SeedOf(2) # {}

\* The estimated tokens of the lines with the indexes from..to of the text
RECURSIVE TokensOfLines(_, _)
TokensOfLines(from, to) ==
    IF from > to THEN 0
    ELSE estimateTokens(call.text[from + 1]) + TokensOfLines(from + 1, to)

\* C28: whenever chunkText closes a chunk, the trailing lines it copies into
\* the next chunk have a cumulative estimated token count <= the overlap.
C28_OverlapBudget ==
    call.fn = "chunkText" =>
        \A k \in 2..Len(call.out) :
            TokensOfLines(call.out[k].startLine, call.out[k - 1].endLine) <= call.overlap

\* C29: chunkText("", size, overlap) returns an empty sequence: no chunk to
\* embed and no index entry for an empty document.
C29_EmptyInput ==
    (call.fn = "chunkText" /\ call.text = <<"">>) => call.out = <<>>

\* The lines of the text whose own estimated tokens exceed the chunk size
Oversized == {l \in 0..Len(call.text) - 1 : estimateTokens(call.text[l + 1]) > call.chunkSize}

\* Every chunk's text is the run of whole input lines of its line range
WholeLines ==
    \A k \in 1..Len(call.out) :
        call.out[k].text = SubSeq(call.text, call.out[k].startLine + 1,
                                  call.out[k].endLine + 1)

C32_TokenBounded ==
    (call.fn = "chunkText" /\ call.overlap < call.chunkSize) =>
        \A k \in 1..Len(call.out) :
            call.out[k].endLine > call.out[k].startLine =>
                TokensOfLines(call.out[k].startLine, call.out[k].endLine) <= call.chunkSize

\* C38: chunkText terminates for every chunk size > 0 and overlap >= 0,
\* overlap >= chunk size included: every step of the loop moves to the next
\* line index until the lines are used up, a step is always possible until the
\* function returns, and it returns at most one chunk per input line, the
\* chunks of chunkText.
C38_ChunkTextTerminates ==
    /\ [](call.fn = "chunkLoop" =>
              /\ call.i <= Len(call.text)
              /\ Len(call.chunks) <= Len(call.text)
              /\ ~call.done => ENABLED (IterateChunkText \/ ReturnChunkText)
              /\ call.done => call.chunks = chunkText(call.text, call.chunkSize, call.overlap))
    /\ [][(call.fn = "chunkLoop" /\ ~call.done) =>
              \/ call.i < Len(call.text) /\ ~call'.done /\ call'.i = call.i + 1
              \/ call.i = Len(call.text) /\ call'.done /\ call'.i = call.i]_vars

\* chunkText has returned one chunk per line for an overlap >= the chunk size
C38_Witness ==
    /\ call.fn = "chunkLoop"
    /\ call.done
    /\ call.overlap >= call.chunkSize
    /\ Len(call.text) = MaxLines
    /\ Len(call.chunks) = MaxLines

----------------------------------------------------------------------------
(* Properties of cosineSimilarity *)

\* The vector of the last application is not the zero vector
NonZero(v) == DotProduct(v, v, 1) # 0

C34_ScoresDefined ==
    call.fn = "cosineSimilarity" =>
        /\ ~call.ab.nan
        /\ call.ab.num <= call.ab.den /\ -call.ab.den <= call.ab.num
        /\ call.ab.num = call.ab.den => call.ab.off <= 0
        /\ call.ab.num = -call.ab.den => call.ab.off >= 0
        /\ (~NonZero(call.a) \/ ~NonZero(call.b)) => call.ab.num = 0

-----------------------------------------------------------------------------
(* Properties of the history across sends and New chat *)

\* The history alternates user, assistant from its first message
Alternates(history) ==
    \A i \in 1..Len(history) :
        history[i].role = IF i % 2 = 1 THEN "user" ELSE "assistant"

\* C35: under any interleaving of submit, completion success, completion
\* failure and New chat, whenever no send is in flight the history has even
\* length and alternates user, assistant from the start.
C35_HistoryPairs ==
    snd = <<>> => (Len(messages) % 2 = 0 /\ Alternates(messages))

\* C37: the auto-discovered chunks of a request come from that send's own
\* search; a send accepted while semantic search is disabled puts no
\* auto-discovered chunk into its request.
C37_ChunksOfThisSend ==
    [][\A s \in 1..Len(snd') :
          (Issued(s) /\ snd'[s].search = "off") =>
              Chunks(snd'[s].request.system) = <<>>]_vars

\* C36: whenever no discovery run is in flight, the stored similar list is the
\* result computed for the most recently activated reference document. A list
\* computed for a reference document never has an entry for that document, so
\* with no manual addition the stored list has no entry for the document of
\* the latest run.
C36_ResultsOfCurrentDocument ==
    (disc.pc = "idle" /\ disc.file # "") =>
        \A i \in 1..Len(similarNotes) : similarNotes[i].file # disc.file

-----------------------------------------------------------------------------
(* Properties of the persisted index across sessions *)

\* The stored record and the chunk agree on path, text, embedding and lines
SameChunk(item, chunk) ==
    /\ item.filePath = chunk.file
    /\ item.text = chunk.text
    /\ item.embedding = chunk.embedding
    /\ item.startLine = chunk.startLine
    /\ item.endLine = chunk.endLine

\* The store describes the index: the same chunks in the same order and the
\* same timestamp
Describes(st, index) ==
    /\ st.exists /\ st.valid
    /\ Len(st.chunks) = Len(index.chunks)
    /\ \A i \in 1..Len(st.chunks) : SameChunk(st.chunks[i], index.chunks[i])
    /\ st.lastUpdated = index.lastUpdated

\* C39: when the write of a rebuild succeeds, the store describes the index in
\* memory; and a load of a readable store whose documents all exist yields an
\* index the store describes, so an index saved and loaded again has the same
\* chunks in the same order and the same lastUpdated.
C39_PersistLoadRoundTrip ==
    [][/\ \A r \in Invocations :
             (rb[r].pc = "saving" /\ rb'[r].pc = "idle" /\ store' # store) =>
                 /\ Describes(store', vaultIndex')
                 /\ vaultIndex' = vaultIndex
                 /\ notice' = "complete"
       /\ (/\ ~booted /\ booted'
           /\ StoreUsable(store)
           /\ \A i \in 1..Len(store.chunks) : store.chunks[i].filePath \in vault) =>
             /\ Describes(store, vaultIndex')
             /\ store' = store]_vars

\* A rebuild of this session's predecessor wrote the index of both notes, and
\* this session has loaded it whole
C39_Witness ==
    /\ booted
    /\ store.lastUpdated > 1
    /\ Len(vaultIndex.chunks) >= 2
    /\ \A i \in 1..Len(vaultIndex.chunks) : vaultIndex.chunks[i].gen = 0
    /\ \E i \in 1..Len(vaultIndex.chunks) : vaultIndex.chunks[i].file = "b.md"
    /\ Describes(store, vaultIndex)

====
